---- MODULE Spec2Model ----
(***************************************************************************)
(* A model of the igo translator core: the token.FileSet serialisation,    *)
(* the parser's initialisation on a shared FileSet, its error reporting,   *)
(* scopes and objects, identifier resolution and function declarations.    *)
(*                                                                         *)
(* The module holds several specifications over one set of variables.      *)
(* Each specification drives one group of variables and keeps the other    *)
(* groups at their idle values.                                            *)
(***************************************************************************)
EXTENDS Integers, Sequences, FiniteSets, TLC

VARIABLES
    fset,       \* the FileSet: [id, base, files, last]
    wire,       \* the serializedFileSet handed from encode to decode, or NoWire
    rset,       \* the FileSet that Read deserialises into
    rerr,       \* what the last Write / Read returned: "none", "ok", "err"
    ppc,        \* per parser: position inside parser.init
    plen,       \* per parser: len(src) of the source it is given
    pbase,      \* per parser: the value fset.Base() returned to it
    pfile,      \* per parser: the File that AddFile returned (NoFile before)
    p,          \* one parser: the fields of the parser struct and the arenas
                \* of the scopes, objects and identifiers it allocated
    op,         \* the operation that ran last, with its arguments and result
    hist        \* the Scope.Insert calls made so far: [self, obj]

fsVars == <<fset, wire, rset, rerr>>
initVars == <<ppc, plen, pbase, pfile>>

parVars == <<p, op, hist>>

vars == <<fset, wire, rset, rerr, ppc, plen, pbase, pfile, p, op, hist>>

----------------------------------------------------------------------------
(* Bounds *)

MaxFiles == 2       \* files in a FileSet
MaxSize == 2        \* size of a source file
NParsers == 3       \* parsers initialised concurrently
MaxLine == 3        \* lines of a source that hold an error or a label use
MaxErrs == 3        \* errors recorded in one parse
MaxScanErrs == 1    \* errors the scanner reports in one parse
MaxTargets == 1     \* labelled branch statements in one parse
MaxScopes == 2      \* scopes allocated
MaxObjs == 3        \* objects allocated
MaxIdents == 3      \* identifiers allocated
MaxDecls == 2       \* declarations in a source file

FileNames == {"a.igo", "b.igo"}

----------------------------------------------------------------------------
(* token.File and token.FileSet *)

NoWire == [Base |-> -1, Files |-> <<>>]
NoFile == [set |-> "", name |-> "", base |-> -1, size |-> -1, lines |-> <<>>, infos |-> <<>>]

\* &File{set, name, base, size, lines, infos}
File(set, name, base, size, lines, infos) ==
    [set |-> set, name |-> name, base |-> base, size |-> size,
     lines |-> lines, infos |-> infos]

\* serializedFile{f.name, f.base, f.size, f.lines, f.infos}
serializedFile(f) ==
    [Name |-> f.name, Base |-> f.base, Size |-> f.size,
     Lines |-> f.lines, Infos |-> f.infos]

\* The record FileSet.Write hands to encode.
WriteFS(self) ==
    [Base |-> self.base,
     Files |-> [i \in 1..Len(self.files) |-> serializedFile(self.files[i])]]

ReadFS_DropsBase(self, ss) ==
    [self EXCEPT
        !.files = [i \in 1..Len(ss.Files) |->
                      File(self.id, ss.Files[i].Name, ss.Files[i].Base,
                           ss.Files[i].Size, ss.Files[i].Lines, ss.Files[i].Infos)],
        !.last = 0]

\* The FileSet after FileSet.Read decoded ss into it.
ReadFS(self, ss) ==
    [self EXCEPT
        !.base = ss.Base,
        !.files = [i \in 1..Len(ss.Files) |->
                      File(self.id, ss.Files[i].Name, ss.Files[i].Base,
                           ss.Files[i].Size, ss.Files[i].Lines, ss.Files[i].Infos)],
        !.last = 0]

\* FileSet.AddFile: reserves [base, base+size+1] and advances the cursor.
AddFile(self, name, base, size) ==
    LET f == File(self.id, name, base, size, <<0>>, <<>>)
    IN  [self EXCEPT
            !.base = base + size + 1,
            !.files = Append(@, f),
            !.last = Len(self.files) + 1]

\* FileSet.Base
Base(self) == self.base

----------------------------------------------------------------------------
(* Inputs of the serialisation round trip *)

\* A line table: sorted line-start offsets, the first of them 0.
LinesOf(size) ==
    {<<0>>} \cup {<<0, k>> : k \in 1..(size - 1)}

\* lineInfo{Offset, Filename, Line} entries left by //line directives.
InfosOf(size) ==
    {<<>>, <<[Offset |-> size - 1, Filename |-> "x.y", Line |-> 7]>>}

\* What one AddFile call (after a gap) and the parser's line bookkeeping leave.
FileInputs ==
    UNION {{[name |-> n, gap |-> g, size |-> sz, lines |-> ls, infos |-> is] :
               n \in FileNames, g \in {0, 1},
               ls \in LinesOf(sz), is \in InfosOf(sz)} :
           sz \in {MaxSize - 1, MaxSize}}

RECURSIVE BuildFS(_, _)
BuildFS(self, ins) ==
    IF ins = <<>> THEN self
    ELSE LET in == Head(ins)
             s1 == AddFile(self, in.name, self.base + in.gap, in.size)
             n == Len(s1.files)
             s2 == [s1 EXCEPT !.files[n].lines = in.lines,
                              !.files[n].infos = in.infos]
         IN  BuildFS(s2, Tail(ins))

\* NewFileSet: base 1 (0 is NoPos), no files.
NewFileSet(id) == [id |-> id, base |-> 1, files |-> <<>>, last |-> 0]

InputSeqs == UNION {[1..n -> FileInputs] : n \in 0..MaxFiles}

----------------------------------------------------------------------------
(* ast.Object, ast.Scope, ast.Ident *)

\* Every name a modelled source uses; "_" is the blank identifier.
Names == {"_", "a", "b", "self", "init", "T", "L"}

NoPos == 0

\* The node an Object was declared by, as far as Object.Pos reads it: its
\* kind, the identifiers it names (Name, NamePos; for an AssignStmt the
\* identifiers among Lhs) and, for an ImportSpec, the position of its path.
Decl(kind, names, pathPos) == [kind |-> kind, names |-> names, pathPos |-> pathPos]
NoDecl == Decl("nil", <<>>, NoPos)

\* An *ast.Object; id stands for the pointer.
Object(id, kind, name, decl, data) ==
    [id |-> id, Kind |-> kind, Name |-> name, Decl |-> decl, Data |-> data]

\* The nil *ast.Object.
nil == Object(0, "", "", NoDecl, 0)

\* var unresolved = new(ast.Object): the sentinel, a zero Object of its own.
unresolved == Object(-1, "Bad", "", NoDecl, 0)

\* &ast.Ident{NamePos: pos, Name: name}
Ident(pos, name) == [NamePos |-> pos, Name |-> name, Obj |-> nil]

\* ast.NewScope(outer): outer is an index into the scope arena, 0 for nil.
NewScope(outer) == [Outer |-> outer, Objects |-> [n \in Names |-> nil]]

\* Scope.Lookup
Lookup(self, name) == self.Objects[name]

Insert_Overwrites(self, obj) ==
    [alt |-> self.Objects[obj.Name],
     scope |-> [self EXCEPT !.Objects[obj.Name] = obj]]

Insert_NoAlt(self, obj) ==
    [alt |-> nil,
     scope |-> IF self.Objects[obj.Name] = nil
               THEN [self EXCEPT !.Objects[obj.Name] = obj] ELSE self]

\* Scope.Insert: the scope after the call and the alt it returns.
Insert(self, obj) ==
    LET alt == self.Objects[obj.Name]
    IN  [alt |-> alt,
         scope |-> IF alt = nil THEN [self EXCEPT !.Objects[obj.Name] = obj]
                   ELSE self]

RECURSIVE FirstNamed(_, _)
\* for _, n := range names { if n.Name == name { return n.Pos() } }
FirstNamed(names, name) ==
    IF names = <<>> THEN NoPos
    ELSE IF Head(names).Name = name THEN Head(names).NamePos
    ELSE FirstNamed(Tail(names), name)

\* Object.Pos
Pos(self) ==
    LET d == self.Decl
        name == self.Name
    IN  CASE d.kind \in {"Field", "ValueSpec", "AssignStmt"} ->
                FirstNamed(d.names, name)
          [] d.kind = "ImportSpec" ->
                IF d.names # <<>> /\ d.names[1].Name = name
                THEN d.names[1].NamePos ELSE d.pathPos
          [] d.kind \in {"TypeSpec", "FuncDecl", "LabeledStmt"} ->
                IF d.names[1].Name = name THEN d.names[1].NamePos ELSE NoPos
          [] OTHER -> NoPos

----------------------------------------------------------------------------
(* The parser struct *)

\* An error message: its text, the name it is about and the line of the
\* previous declaration it cites (NoPos when it cites none).
Msg(text, name, prev) == [text |-> text, name |-> name, prev |-> prev]

\* The number of recorded errors above which error() raises bailout.
ErrorCap == 10

\* An *ast.File as far as the scoping reads it, and the nil *ast.File.
AstFile(scope, unres) == [Scope |-> scope, Unresolved |-> unres]
NilFile == AstFile(0, <<>>)

\* A parser before init. Positions are line numbers: the modelled code
\* reads nothing else of a token.Position.
P0 ==
    [mode |-> {},               \* mode bits that are set
     errors |-> <<>>,           \* scanner.ErrorList: [Line, Msg]
     abort |-> "none",          \* the panic that is unwinding: bailout, panic
     reps |-> <<>>,             \* what the running operation handed to error()
     pos |-> 1,                 \* position of the current token
     scopes |-> <<>>,           \* arena of the *ast.Scope allocated
     idents |-> <<>>,           \* arena of the *ast.Ident allocated
     nobj |-> 0,                \* number of ast.NewObj calls
     pkgScope |-> 0,
     topScope |-> 0,
     unresolved |-> <<>>,
     labelScope |-> 0,
     targetStack |-> <<>>,
     file |-> NilFile,          \* what parseFile returned
     done |-> FALSE,            \* parseFile has returned
     toks |-> <<>>,             \* what the scanner yields: [tok, lit, line]
     lines |-> <<>>,            \* the file's line table, <<>> for sources
                                \* given by lines only
     comments |-> <<>>,         \* the comment groups, each its List
     leadComment |-> <<>>,      \* <<>> for nil
     lineComment |-> <<>>,
     at |-> 1,                  \* index in toks of the current token
     ptok |-> "ILLEGAL",        \* the previous token
     allowEmptyBlock |-> FALSE,
     inRhs |-> FALSE,
     decls |-> <<>>,            \* decls of parseFile
     thrown |-> Msg("", "", NoPos),   \* the value of a panic that is no bailout
     syncPos |-> NoPos,         \* last synchronization position
     syncCnt |-> 0]             \* calls of syncStmt, syncDecl without progress

NoOp == [name |-> "none"]

ParIdle ==
    /\ p = P0
    /\ op = NoOp
    /\ hist = <<>>

error_CapOffByOne(q, pos, msg) ==
    LET e == [Line |-> pos, Msg |-> msg]
        n == Len(q.errors)
        r == [q EXCEPT !.reps = Append(@, e)]
    IN  IF "AllErrors" \notin q.mode /\ n > 0 /\ q.errors[n].Line = pos
        THEN r
        ELSE IF "AllErrors" \notin q.mode /\ n > ErrorCap - 1
        THEN [r EXCEPT !.abort = "bailout"]
        ELSE [r EXCEPT !.errors = Append(@, e)]

error_NoDedup(q, pos, msg) ==
    LET e == [Line |-> pos, Msg |-> msg]
        n == Len(q.errors)
        r == [q EXCEPT !.reps = Append(@, e)]
    IN  IF "AllErrors" \notin q.mode /\ n > ErrorCap
        THEN [r EXCEPT !.abort = "bailout"]
        ELSE [r EXCEPT !.errors = Append(@, e)]

\* parser.error
error(q, pos, msg) ==
    LET e == [Line |-> pos, Msg |-> msg]
        n == Len(q.errors)
        r == [q EXCEPT !.reps = Append(@, e)]
    IN  IF "AllErrors" \notin q.mode /\ n > 0 /\ q.errors[n].Line = pos
        THEN r
        ELSE IF "AllErrors" \notin q.mode /\ n > ErrorCap
        THEN [r EXCEPT !.abort = "bailout"]
        ELSE [r EXCEPT !.errors = Append(@, e)]

\* The handler eh that parser.init gives the scanner.
eh(q, pos, msg) ==
    [q EXCEPT !.errors = Append(@, [Line |-> pos, Msg |-> msg])]

\* parser.openLabelScope
openLabelScope(q) ==
    [q EXCEPT !.scopes = Append(@, NewScope(q.labelScope)),
              !.labelScope = Len(q.scopes) + 1,
              !.targetStack = Append(@, <<>>)]

RECURSIVE resolveLabels(_, _, _)
\* The loop of closeLabelScope over targetStack[n]; a bailout unwinds it.
resolveLabels(q, scope, targets) ==
    IF targets = <<>> \/ q.abort # "none" THEN q
    ELSE LET i == Head(targets)
             obj == Lookup(q.scopes[scope], q.idents[i].Name)
             q1 == [q EXCEPT !.idents[i].Obj = obj]
             q2 == IF obj = nil /\ "DeclarationErrors" \in q.mode
                   THEN error(q1, q.idents[i].NamePos,
                              Msg("label undefined", q.idents[i].Name, NoPos))
                   ELSE q1
         IN  resolveLabels(q2, scope, Tail(targets))

\* parser.closeLabelScope
\* A closeLabelScope that pops the targets and leaves the label scope
closeLabelScope_KeepsScope(q) ==
    IF resolveLabels(q, q.labelScope, q.targetStack[Len(q.targetStack)]).abort # "none"
    THEN resolveLabels(q, q.labelScope, q.targetStack[Len(q.targetStack)])
    ELSE [resolveLabels(q, q.labelScope, q.targetStack[Len(q.targetStack)])
             EXCEPT !.targetStack = SubSeq(@, 1, Len(q.targetStack) - 1)]

closeLabelScope(q) ==
    LET n == Len(q.targetStack)
        q1 == resolveLabels(q, q.labelScope, q.targetStack[n])
    IN  IF q1.abort # "none" THEN q1
        ELSE [q1 EXCEPT !.targetStack = SubSeq(@, 1, n - 1),
                        !.labelScope = q.scopes[q.labelScope].Outer]

\* assert(cond, msg)
assert(q, cond) ==
    IF q.abort = "none" /\ ~cond THEN [q EXCEPT !.abort = "panic"] ELSE q

\* parser.openScope
openScope(q) ==
    [q EXCEPT !.scopes = Append(@, NewScope(q.topScope)),
              !.topScope = Len(q.scopes) + 1]

\* parser.closeScope; self.topScope.Outer of a nil topScope panics.
closeScope(q) ==
    IF q.abort # "none" THEN q
    ELSE IF q.topScope = 0 THEN [q EXCEPT !.abort = "panic"]
    ELSE [q EXCEPT !.topScope = q.scopes[q.topScope].Outer]

declareOne_IgnoresMode(q, decl, data, scope, kind, i) ==
    LET ident == q.idents[i]
        obj == Object(q.nobj + 1, kind, ident.Name, decl, data)
        q1 == [q EXCEPT !.nobj = @ + 1, !.idents[i].Obj = obj]
        r == Insert(q1.scopes[scope], obj)
    IN  IF ident.Obj # nil THEN [q EXCEPT !.abort = "panic"]
        ELSE IF ident.Name = "_" THEN q1
        ELSE IF r.alt # nil
        THEN error([q1 EXCEPT !.scopes[scope] = r.scope], ident.NamePos,
                   Msg("redeclared", ident.Name, Pos(r.alt)))
        ELSE [q1 EXCEPT !.scopes[scope] = r.scope]

\* The body of the loop of parser.declare, for the identifier q.idents[i].
declareOne(q, decl, data, scope, kind, i) ==
    LET ident == q.idents[i]
        obj == Object(q.nobj + 1, kind, ident.Name, decl, data)
        q1 == [q EXCEPT !.nobj = @ + 1, !.idents[i].Obj = obj]
        r == Insert(q1.scopes[scope], obj)
        prevDecl == IF Pos(r.alt) # NoPos THEN Pos(r.alt) ELSE NoPos
    IN  IF ident.Obj # nil THEN [q EXCEPT !.abort = "panic"]
        ELSE IF ident.Name = "_" THEN q1
        ELSE IF r.alt # nil /\ "DeclarationErrors" \in q.mode
        THEN error([q1 EXCEPT !.scopes[scope] = r.scope], ident.NamePos,
                   Msg("redeclared", ident.Name, prevDecl))
        ELSE [q1 EXCEPT !.scopes[scope] = r.scope]

RECURSIVE declare(_, _, _, _, _, _)
\* parser.declare; idents are indices into the identifier arena.
declare(q, decl, data, scope, kind, idents) ==
    IF idents = <<>> \/ q.abort # "none" THEN q
    ELSE declare(declareOne(q, decl, data, scope, kind, Head(idents)),
                 decl, data, scope, kind, Tail(idents))

RECURSIVE lookupChain(_, _, _)
\* for s := self.topScope; s != nil; s = s.Outer { s.Lookup(name) ... }
lookupChain(q, s, name) ==
    IF s = 0 THEN nil
    ELSE IF Lookup(q.scopes[s], name) # nil THEN Lookup(q.scopes[s], name)
    ELSE lookupChain(q, q.scopes[s].Outer, name)

\* tryResolve without the test of collectUnresolved
tryResolve_AlwaysCollects(q, i, collectUnresolved) ==
    LET ident == q.idents[i]
        obj == lookupChain(q, q.topScope, ident.Name)
    IN  IF q.abort # "none" THEN q
        ELSE IF ident.Obj # nil THEN [q EXCEPT !.abort = "panic"]
        ELSE IF ident.Name = "_" THEN q
        ELSE IF obj # nil THEN [q EXCEPT !.idents[i].Obj = obj]
        ELSE [q EXCEPT !.idents[i].Obj = unresolved,
                       !.unresolved = Append(@, i)]

\* parser.tryResolve for the identifier q.idents[i]
tryResolve(q, i, collectUnresolved) ==
    LET ident == q.idents[i]
        obj == lookupChain(q, q.topScope, ident.Name)
    IN  IF q.abort # "none" THEN q
        ELSE IF ident.Obj # nil THEN [q EXCEPT !.abort = "panic"]
        ELSE IF ident.Name = "_" THEN q
        ELSE IF obj # nil THEN [q EXCEPT !.idents[i].Obj = obj]
        ELSE IF collectUnresolved
        THEN [q EXCEPT !.idents[i].Obj = unresolved,
                       !.unresolved = Append(@, i)]
        ELSE q

\* parser.resolve
resolve(q, i) == tryResolve(q, i, TRUE)

RECURSIVE resolveGlobals(_, _, _)
\* The loop of parseFile over self.unresolved: k is the element visited
\* next, i the number of identifiers kept so far (self.unresolved[i] in
\* the source counts from 0).
resolveGlobals(q, k, i) ==
    IF k > Len(q.unresolved) \/ q.abort # "none" THEN [q |-> q, i |-> i]
    ELSE LET id == q.unresolved[k]
             obj == Lookup(q.scopes[q.pkgScope], q.idents[id].Name)
             q1 == [q EXCEPT !.idents[id].Obj = obj]
         IN  IF q.idents[id].Obj # unresolved
             THEN [q |-> [q EXCEPT !.abort = "panic"], i |-> i]
             ELSE IF obj = nil
             THEN resolveGlobals([q1 EXCEPT !.unresolved[i + 1] = id], k + 1, i + 1)
             ELSE resolveGlobals(q1, k + 1, i)

parseFileEnd_KeepsAll(q) ==
    LET q1 == assert(assert(closeScope(q), closeScope(q).topScope = 0),
                     q.labelScope = 0)
        r == resolveGlobals(q1, 1, 0)
    IN  IF r.q.abort # "none" THEN r.q
        ELSE [r.q EXCEPT !.file = AstFile(q.pkgScope, q.unresolved),
                         !.done = TRUE]

\* parseFile from the end of the declarations on.
parseFileEnd(q) ==
    LET q1 == assert(assert(closeScope(q), closeScope(q).topScope = 0),
                     q.labelScope = 0)
        r == resolveGlobals(q1, 1, 0)
    IN  IF r.q.abort # "none" THEN r.q
        ELSE [r.q EXCEPT !.file =
                 AstFile(q.pkgScope, SubSeq(r.q.unresolved, 1, r.i)),
                         !.done = TRUE]

----------------------------------------------------------------------------
(* The productions of the package clause and of function declarations *)

\* The identifiers a production has parsed at the current token.
NewIdents(q, names, pos) ==
    [q EXCEPT !.idents = @ \o [k \in 1..Len(names) |-> Ident(pos, names[k])]]

\* What Scan returns once the source is exhausted.
EOFToken(q) ==
    [tok |-> "EOF", lit |-> "",
     line |-> IF q.toks = <<>> THEN 1
              ELSE q.toks[Len(q.toks)].line
                   + (IF q.toks[Len(q.toks)].tok = "SEMICOLON" THEN 1 ELSE 0)]

\* self.tok, self.lit and the line of self.pos
Cur(q) == IF q.at <= Len(q.toks) THEN q.toks[q.at] ELSE EOFToken(q)
tok(q) == Cur(q).tok

\* A production outside the model is entered.
unmodelled(q) == IF q.abort # "none" THEN q ELSE [q EXCEPT !.abort = "unmodelled"]

\* token.File.Line: the number of line starts at or before the offset. In
\* a source with a line table the field line of a token is its offset; in a
\* source given by lines only, a position is a line.
Line(q, pos) ==
    IF q.lines = <<>> THEN pos
    ELSE Cardinality({k \in 1..Len(q.lines) : q.lines[k] <= pos})

\* parser.next0
next0(q) ==
    LET scanned(q1) == [q1 EXCEPT !.pos = Cur(q1).line]
    IN  scanned([q EXCEPT !.ptok = tok(q),
                          !.at = IF @ <= Len(q.toks) THEN @ + 1 ELSE @])

\* &ast.Comment{Slash: pos, Text: text}
Comment(pos, text) == [Slash |-> pos, Text |-> text]

\* The loop of consumeCommentGroup, with one consumeComment a turn; at its
\* end the group is appended to self.comments.
RECURSIVE commentLoop(_, _, _, _)
commentLoop(q, n, list, endline) ==
    IF tok(q) = "COMMENT" /\ Line(q, q.pos) <= endline + n
    THEN commentLoop(next0(q), n, Append(list, Comment(q.pos, Cur(q).lit)),
                     Line(q, q.pos))
    ELSE [q |-> [q EXCEPT !.comments = Append(@, list)],
          comments |-> list, endline |-> endline]

RECURSIVE commentLoop_AppendsEach(_, _, _, _)
\* A loop that appends the group to self.comments after each comment.
commentLoop_AppendsEach(q, n, list, endline) ==
    IF tok(q) = "COMMENT" /\ Line(q, q.pos) <= endline + n
    THEN commentLoop_AppendsEach(
             [next0(q) EXCEPT !.comments =
                  Append(@, Append(list, Comment(q.pos, Cur(q).lit)))],
             n, Append(list, Comment(q.pos, Cur(q).lit)), Line(q, q.pos))
    ELSE [q |-> q, comments |-> list, endline |-> endline]

consumeCommentGroup_AppendsEach(q, n) ==
    commentLoop_AppendsEach(q, n, <<>>, Line(q, q.pos))

\* parser.consumeCommentGroup
consumeCommentGroup(q, n) == commentLoop(q, n, <<>>, Line(q, q.pos))

\* for self.tok == token.COMMENT { comment, endline = consumeCommentGroup(1) }
\* and the test for a lead comment after it.
RECURSIVE successorGroups(_, _, _)
successorGroups(q, comment, endline) ==
    LET again(r) == successorGroups(r.q, r.comments, r.endline)
    IN  IF tok(q) = "COMMENT" THEN again(consumeCommentGroup(q, 1))
        ELSE IF endline + 1 = Line(q, q.pos)
        THEN [q EXCEPT !.leadComment = comment]
        ELSE q

\* A next() that keeps the lead and line comments of the call before.
next_NoReset(q) ==
    LET sameLine(r) ==
            successorGroups(
                IF Line(r.q, r.q.pos) # r.endline
                THEN [r.q EXCEPT !.lineComment = r.comments]
                ELSE r.q,
                r.comments, -1)
        scanned(q1, prev) ==
            IF tok(q1) # "COMMENT" THEN q1
            ELSE IF Line(q1, q1.pos) = Line(q1, prev)
            THEN sameLine(consumeCommentGroup(q1, 0))
            ELSE successorGroups(q1, <<>>, -1)
    IN  IF q.abort # "none" THEN q
        ELSE scanned(next0(q), q.pos)

\* parser.next
next(q) ==
    LET sameLine(r) ==
            successorGroups(
                IF Line(r.q, r.q.pos) # r.endline
                THEN [r.q EXCEPT !.lineComment = r.comments]
                ELSE r.q,
                r.comments, -1)
        scanned(q1, prev) ==
            IF tok(q1) # "COMMENT" THEN q1
            ELSE IF Line(q1, q1.pos) = Line(q1, prev)
            THEN sameLine(consumeCommentGroup(q1, 0))
            ELSE successorGroups(q1, <<>>, -1)
    IN  IF q.abort # "none" THEN q
        ELSE scanned(next0([q EXCEPT !.leadComment = <<>>,
                                     !.lineComment = <<>>]),
                     q.pos)

\* parser.errorExpected: it panics with the message.
errorExpected(q, pos, msg) ==
    IF q.abort # "none" THEN q
    ELSE [q EXCEPT !.abort = "panic", !.thrown = Msg("expected", msg, NoPos)]

\* parser.expect
expect(q, t) ==
    IF q.abort # "none" THEN q
    ELSE IF tok(q) # t THEN next(errorExpected(q, q.pos, t))
    ELSE next(q)

\* parser.parseIdent; the identifier it returns is the last of the arena.
parseIdent(q) ==
    IF q.abort # "none" THEN q
    ELSE IF tok(q) = "IDENT" THEN next(NewIdents(q, <<Cur(q).lit>>, q.pos))
    ELSE LET q1 == expect(q, "IDENT")
         IN  IF q1.abort # "none" THEN q1 ELSE NewIdents(q1, <<"_">>, q.pos)

\* parser.expectSemi; syncStmt follows errorExpected.
expectSemi(q) ==
    IF q.abort # "none" THEN q
    ELSE IF tok(q) \in {"RPAREN", "RBRACE", "DEDENT"} THEN q
    ELSE IF tok(q) = "SEMICOLON" THEN next(q)
    ELSE IF q.ptok \in {"SEMICOLON", "COMMENT", "DEDENT"} THEN q
    ELSE unmodelled(errorExpected(q, q.pos, "';'"))

\* Expressions: an identifier, *X, X.Sel, or none.
Expr(kind, x) == [kind |-> kind, X |-> x]
NoExpr == Expr("nil", 0)

\* resolve(x) for an expression: tryResolve returns when x is no identifier.
resolveExpr(q, x) == IF x.kind = "Ident" THEN resolve(q, x.X) ELSE q

\* tryResolve(x, collectUnresolved) for an expression
tryResolveExpr(q, x, collectUnresolved) ==
    IF x.kind = "Ident" THEN tryResolve(q, x.X, collectUnresolved) ELSE q

\* parser.parseTypeName
parseTypeName(q) ==
    LET named(q1, i) ==
            IF q1.abort # "none" THEN [q |-> q1, typ |-> NoExpr]
            ELSE IF tok(q1) = "PERIOD"
            THEN [q |-> parseIdent(resolve(next(q1), i)),
                  typ |-> Expr("Selector", i)]
            ELSE [q |-> q1, typ |-> Expr("Ident", i)]
    IN  named(parseIdent(q), Len(q.idents) + 1)

\* parser.tryIdentOrType
tryIdentOrType(q) ==
    IF q.abort # "none" THEN [q |-> q, typ |-> NoExpr]
    ELSE IF tok(q) = "IDENT" THEN parseTypeName(q)
    ELSE IF tok(q) \in {"LBRACK", "STRUCT", "MUL", "FUNC", "INTERFACE", "MAP",
                        "CHAN", "ARROW", "LPAREN"}
    THEN [q |-> unmodelled(q), typ |-> NoExpr]
    ELSE [q |-> q, typ |-> NoExpr]

\* parser.tryType
tryType(q) ==
    LET resolved(r) ==
            IF r.typ # NoExpr
            THEN [q |-> resolveExpr(r.q, r.typ), typ |-> r.typ]
            ELSE r
    IN  resolved(tryIdentOrType(q))

\* parseParameterList after parseVarList gave the one-element list <<x>> and
\* the type typ: "IdentifierList Type" declares the name in the function
\* scope and resolves the type, a lone type is an anonymous parameter.  A
\* list that goes on after its first declaration is outside the model.
paramField(r, x, scope) ==
    LET done(q1) ==
            IF q1.abort = "none" /\ tok(q1) # "RPAREN" THEN unmodelled(q1)
            ELSE q1
    IN  IF r.q.abort # "none" THEN r.q
        ELSE IF r.typ = NoExpr THEN done(resolveExpr(r.q, x))
        ELSE IF x.kind # "Ident" THEN unmodelled(r.q)
        ELSE done(resolveExpr(
                      declare(r.q,
                              Decl("Field",
                                   <<Ident(r.q.idents[x.X].NamePos,
                                           r.q.idents[x.X].Name)>>, NoPos),
                              0, scope, "Var", <<x.X>>),
                      r.typ))

\* parseVarList for a list of one element: the element, then the type that
\* may follow it.
paramVarList(r, scope) ==
    IF r.q.abort # "none" THEN r.q
    ELSE IF tok(r.q) = "COMMA" THEN unmodelled(r.q)
    ELSE paramField(tryIdentOrType(r.q), r.typ, scope)

\* parser.parseParameterList, for a list that starts with an identifier
parseParameterList(q, scope) ==
    IF tok(q) # "IDENT" THEN unmodelled(q)
    ELSE paramVarList(tryIdentOrType(q), scope)

\* parser.parseParameters
parseParameters(q, scope) ==
    LET list(q1) ==
            IF q1.abort # "none" THEN q1
            ELSE IF tok(q1) # "RPAREN"
            THEN expect(parseParameterList(q1, scope), "RPAREN")
            ELSE expect(q1, "RPAREN")
    IN  list(expect(q, "LPAREN"))

\* parser.parseResult
parseResult(q, scope) ==
    IF q.abort # "none" THEN q
    ELSE IF tok(q) = "LPAREN" THEN parseParameters(q, scope)
    ELSE tryType(q).q

\* parser.parseSignature
parseSignature(q, scope) == parseResult(parseParameters(q, scope), scope)

----------------------------------------------------------------------------
(* Expressions, statements and blocks                                      *)

\* The nodes: an identifier is Expr("Ident", i), the i-th of the arena.
BinaryExpr(x, pos, o, y) ==
    [kind |-> "BinaryExpr", X |-> x, OpPos |-> pos, Op |-> o, Y |-> y]
UnaryExpr(pos, o, x) == [kind |-> "UnaryExpr", OpPos |-> pos, Op |-> o, X |-> x]
ParenExpr(lparen, x, rparen) ==
    [kind |-> "ParenExpr", Lparen |-> lparen, X |-> x, Rparen |-> rparen]
CallExpr(fun, lparen, args, ellipsis, rparen) ==
    [kind |-> "CallExpr", Fun |-> fun, Lparen |-> lparen, Args |-> args,
     Ellipsis |-> ellipsis, Rparen |-> rparen]
\* &ast.FuncLit{Type: &ast.FuncType{Func: pos, Params: params}, Body: body},
\* the parameters being the fields of the list, and scope the function
\* scope made for it.
FuncLit(pos, params, scope, body) ==
    [kind |-> "FuncLit", Func |-> pos, Params |-> params, scope |-> scope,
     Body |-> body]

\* &ast.BlockStmt{Opening, List, Closing, Small}; a nil List is <<>>.
BlockStmt(opening, list, closing, small) ==
    [kind |-> "BlockStmt", Opening |-> opening, List |-> list,
     Closing |-> closing, Small |-> small]
NoBlock == BlockStmt(NoPos, <<>>, NoPos, FALSE)
ExprStmt(x) == [kind |-> "ExprStmt", X |-> x]
ReturnStmt(pos, results) == [kind |-> "ReturnStmt", Return |-> pos, Results |-> results]
EmptyStmt(pos) == [kind |-> "EmptyStmt", Semicolon |-> pos]
SwitchStmt(pos, body) == [kind |-> "SwitchStmt", Switch |-> pos, Body |-> body]
CaseClause(pos, list, colon, body) ==
    [kind |-> "CaseClause", Case |-> pos, List |-> list, Colon |-> colon,
     Body |-> body]
NoStmt == [kind |-> "nil"]
\* &ast.BranchStmt{Tok, Label}, the label an identifier or NoExpr;
\* &ast.IncDecStmt{X, Tok}; &ast.IfStmt{Cond, Body} without Init and Else;
\* &ast.ForStmt{Cond, Body} without Init and Post
BranchStmt(t, label) == [kind |-> "BranchStmt", Tok |-> t, Label |-> label]
IncDecStmt(x, t) == [kind |-> "IncDecStmt", X |-> x, Tok |-> t]
IfStmt(cond, body) == [kind |-> "IfStmt", Cond |-> cond, Body |-> body]
ForStmt(cond, body) == [kind |-> "ForStmt", Cond |-> cond, Body |-> body]

\* token.LowestPrec, token.UnaryPrec, token.HighestPrec
LowestPrec == 0
UnaryPrec == 6
HighestPrec == 7

\* The binary operators modelled, by precedence
BinaryOps == [LOR |-> 1, LAND |-> 2, EQL |-> 3, NEQ |-> 3, LSS |-> 3,
              ADD |-> 4, SUB |-> 4, MUL |-> 5, QUO |-> 5, AND |-> 5]

\* token.Token.Precedence
Precedence(t) == IF t \in DOMAIN BinaryOps THEN BinaryOps[t] ELSE LowestPrec

\* parser.tokPrec
tokPrec(q) ==
    IF q.inRhs /\ tok(q) = "ASSIGN"
    THEN [tok |-> "EQL", prec |-> Precedence("EQL")]
    ELSE [tok |-> tok(q), prec |-> Precedence(tok(q))]

\* parser.isIndent
isIndent(q) == tok(q) = "SEMICOLON" /\ Cur(q).lit = "\n"

\* What a production returns with the parser it leaves
Res(q, x) == [q |-> q, x |-> x]

\* What follows a call of a production is written
\* CHOOSE e \in {f(v) : v \in {the call}} : TRUE, which is f(the call): v
\* is what the call returned, and the call is evaluated before f is
\* entered, as in the code.

\* The tokens that may start an expression (parseSmallStmt, parseStmt)
ExprStarts ==
    {"IDENT", "INT", "FLOAT", "IMAG", "CHAR", "STRING", "FUNC", "LPAREN",
     "LBRACK", "STRUCT", "ADD", "SUB", "MUL", "AND", "XOR", "ARROW", "NOT"}

RECURSIVE Parse(_, _)
RECURSIVE primaryLoop(_, _)
RECURSIVE binaryLoop(_, _, _, _)
RECURSIVE exprListLoop(_, _)
RECURSIVE argLoop(_)
RECURSIVE stmtLoop(_)
RECURSIVE caseLoop(_)

\* The ParenExpr of parseOperand, once its expression is parsed
parenOperand(r, lparen) ==
    Res(expect(r.q, "RPAREN"), ParenExpr(lparen, r.x, r.q.pos))

\* parser.parseOperand; literals, function literals and types are outside
\* the model.
parseOperand(q, lhs) ==
    IF q.abort # "none" THEN Res(q, NoExpr)
    ELSE IF isIndent(q) THEN Parse("parseOperand", <<next(q), lhs>>)
    ELSE IF tok(q) = "IDENT"
    THEN Res(IF lhs THEN parseIdent(q)
             ELSE resolve(parseIdent(q), Len(q.idents) + 1),
             Expr("Ident", Len(q.idents) + 1))
    ELSE IF tok(q) = "LPAREN"
    THEN CHOOSE e \in {parenOperand(v, q.pos) : v \in {Parse("parseRhsOrType", <<next(q)>>)}} : TRUE
    ELSE IF tok(q) \in {"INT", "FLOAT", "IMAG", "CHAR", "STRING", "FUNC"}
    THEN Res(unmodelled(q), NoExpr)
    ELSE IF tryIdentOrType(q).q.abort # "none"
    THEN Res(tryIdentOrType(q).q, NoExpr)
    ELSE Res(errorExpected(q, q.pos, "operand"), NoExpr)

\* The loop of parsePrimaryExpr; selectors, indices and composite literals
\* are outside the model.
primaryLoop(r, lhs) ==
    IF r.q.abort # "none" THEN r
    ELSE IF tok(r.q) = "LPAREN"
    THEN CHOOSE e \in {primaryLoop(v, FALSE) :
                 v \in {Parse("parseCallOrConversion",
                              <<IF lhs THEN resolveExpr(r.q, r.x) ELSE r.q, r.x>>)}} : TRUE
    ELSE IF tok(r.q) \in {"PERIOD", "LBRACK", "LBRACE"}
    THEN Res(unmodelled(r.q), NoExpr)
    ELSE r

\* parser.parsePrimaryExpr
parsePrimaryExpr(q, lhs) ==
    CHOOSE e \in {primaryLoop(v, lhs) : v \in {Parse("parseOperand", <<q, lhs>>)}} : TRUE

\* The UnaryExpr of parseUnaryExpr, once its operand is parsed
unaryOperand(r, pos, o) ==
    IF r.q.abort # "none" THEN r ELSE Res(r.q, UnaryExpr(pos, o, r.x))

\* parser.parseUnaryExpr; receive and pointer expressions are outside the
\* model.
parseUnaryExpr(q, lhs) ==
    IF q.abort # "none" THEN Res(q, NoExpr)
    ELSE IF tok(q) \in {"ADD", "SUB", "NOT", "XOR", "AND"}
    THEN CHOOSE e \in {unaryOperand(v, q.pos, tok(q)) :
                 v \in {Parse("parseUnaryExpr", <<next(q), FALSE>>)}} : TRUE
    ELSE IF tok(q) \in {"ARROW", "MUL"} THEN Res(unmodelled(q), NoExpr)
    ELSE parsePrimaryExpr(q, lhs)

\* x = &ast.BinaryExpr{X: x, OpPos: pos, Op: o, Y: y}
binaryOperand(r, x, pos, o) ==
    IF r.q.abort # "none" THEN r ELSE Res(r.q, BinaryExpr(x, pos, o, r.x))

\* A binaryLoop that takes the right operand at the operator's own
\* precedence
binaryLoop_RightAssoc(r, lhs, prec, prec1) ==
    IF r.q.abort # "none" \/ prec < prec1 THEN r
    ELSE IF tokPrec(r.q).prec # prec THEN binaryLoop(r, lhs, prec - 1, prec1)
    ELSE CHOOSE e \in {binaryLoop(binaryOperand(v, r.x, r.q.pos, tokPrec(r.q).tok),
                         FALSE, prec, prec1) :
                 v \in {Parse("parseBinaryExpr",
                              <<expect(r.q, tokPrec(r.q).tok), FALSE, prec>>)}} : TRUE

\* The loops of parseBinaryExpr: prec runs down to prec1, and at each
\* precedence the operators of that precedence are taken from the left.
binaryLoop(r, lhs, prec, prec1) ==
    IF r.q.abort # "none" \/ prec < prec1 THEN r
    ELSE IF tokPrec(r.q).prec # prec THEN binaryLoop(r, lhs, prec - 1, prec1)
    ELSE CHOOSE e \in {binaryLoop(binaryOperand(v, r.x, r.q.pos, tokPrec(r.q).tok),
                         FALSE, prec, prec1) :
                 v \in {Parse("parseBinaryExpr", <<
                            IF lhs THEN resolveExpr(expect(r.q, tokPrec(r.q).tok), r.x)
                            ELSE expect(r.q, tokPrec(r.q).tok),
                            FALSE, prec + 1>>)}} : TRUE

\* The loops of parseBinaryExpr, started at the precedence of the token
\* that follows the first operand
binaryStart(r, lhs, prec1) == binaryLoop(r, lhs, tokPrec(r.q).prec, prec1)

\* parser.parseBinaryExpr
parseBinaryExpr(q, lhs, prec1) ==
    CHOOSE e \in {binaryStart(v, lhs, prec1) : v \in {Parse("parseUnaryExpr", <<q, lhs>>)}} : TRUE

\* parser.parseExpr
parseExpr(q, lhs) == Parse("parseBinaryExpr", <<q, lhs, LowestPrec + 1>>)

\* self.inRhs = old
restoreRhs(r, old) == [r EXCEPT !.q.inRhs = old]

\* parser.parseRhsOrType; checkExprOrType changes array types only.
parseRhsOrType(q) ==
    CHOOSE e \in {restoreRhs(v, q.inRhs) : v \in {parseExpr([q EXCEPT !.inRhs = TRUE], FALSE)}} : TRUE

\* list = append(list, x)
appendExpr(r, list) ==
    IF r.q.abort # "none" THEN Res(r.q, list) ELSE Res(r.q, Append(list, r.x))

\* The loop of parseExprList; r.x is the list.
exprListLoop(r, lhs) ==
    IF r.q.abort # "none" \/ tok(r.q) # "COMMA" THEN r
    ELSE CHOOSE e \in {exprListLoop(appendExpr(v, r.x), lhs) :
                 v \in {parseExpr(next(r.q), lhs)}} : TRUE

\* parser.parseExprList; checkExpr passes the expressions modelled.
parseExprList(q, lhs) ==
    CHOOSE e \in {exprListLoop(appendExpr(v, <<>>), lhs) : v \in {parseExpr(q, lhs)}} : TRUE

\* parser.parseRhsList
parseRhsList(q) ==
    CHOOSE e \in {restoreRhs(v, q.inRhs) :
            v \in {Parse("parseExprList", <<[q EXCEPT !.inRhs = TRUE], FALSE>>)}} : TRUE

\* for _, x := range list { self.resolve(x) }
RECURSIVE resolveList(_, _)
resolveList(q, list) ==
    IF list = <<>> THEN q
    ELSE resolveList(resolveExpr(q, Head(list)), Tail(list))

\* The end of parseLhsList: the identifiers are resolved unless a := or a
\* colon follows.
resolveLhs(r) ==
    IF r.q.abort # "none" \/ tok(r.q) \in {"DEFINE", "COLON"} THEN r
    ELSE Res(resolveList(r.q, r.x), r.x)

\* parser.parseLhsList
parseLhsList(q) ==
    CHOOSE e \in {restoreRhs(resolveLhs(v), q.inRhs) :
            v \in {Parse("parseExprList", <<[q EXCEPT !.inRhs = FALSE], TRUE>>)}} : TRUE

\* parser.atComma: whether the list goes on, with the parser it leaves
atComma(q, context) ==
    IF tok(q) = "COMMA" THEN Res(q, TRUE)
    ELSE IF isIndent(q)
    THEN Res(error(q, q.pos, Msg("missing ',' before newline in", context, NoPos)),
             TRUE)
    ELSE Res(q, FALSE)

\* parser.expectClosing
expectClosing(q, t, context) ==
    IF q.abort # "none" THEN q
    ELSE IF tok(q) # t /\ isIndent(q)
    THEN expect(next(error(q, q.pos,
                           Msg("missing ',' before newline in", context, NoPos))),
                t)
    ELSE expect(q, t)

\* The arguments parsed so far, with the position of the ellipsis
Args(q, list, ellipsis) == [q |-> q, list |-> list, ellipsis |-> ellipsis]

\* The end of a turn of the argument loop: after the comma the loop goes on.
argComma(a, c) ==
    IF c.q.abort # "none" \/ ~c.x THEN Args(c.q, a.list, a.ellipsis)
    ELSE argLoop(Args(next(c.q), a.list, a.ellipsis))

\* if self.tok == token.ELLIPSIS { ellipsis = self.pos; self.next() }
argEllipsis(a) ==
    IF a.q.abort = "none" /\ tok(a.q) = "ELLIPSIS"
    THEN Args(next(a.q), a.list, a.q.pos)
    ELSE a

\* list = append(list, self.parseRhsOrType())
argAppend(r, a) ==
    IF r.q.abort # "none" THEN Args(r.q, a.list, a.ellipsis)
    ELSE Args(r.q, Append(a.list, r.x), a.ellipsis)

\* The turn of the loop after the argument
argNext(a) == argComma(a, atComma(a.q, "argument list"))

\* The loop of parseCallOrConversion over the arguments
argLoop(a) ==
    IF a.q.abort # "none" \/ tok(a.q) \in {"RPAREN", "EOF"} \/ a.ellipsis # NoPos
    THEN a
    ELSE CHOOSE e \in {argNext(argEllipsis(argAppend(v, a))) :
                 v \in {Parse("parseRhsOrType", <<a.q>>)}} : TRUE

\* The FuncLit of the do sugar, once its body is parsed
doLit(r, pos, scope) ==
    IF r.q.abort # "none" THEN Res(r.q, NoExpr)
    ELSE Res(r.q, FuncLit(pos, <<>>, scope, r.x))

\* The function literal of the do sugar: its scope, signature and body
doBody(q) ==
    CHOOSE e \in {doLit(v, q.pos, Len(q.scopes) + 1) :
            v \in {Parse("parseBody",
                         <<Parse("parseSignature",
                                 <<[expect(q, "DO") EXCEPT
                                       !.scopes = Append(@, NewScope(q.topScope))],
                                   Len(q.scopes) + 1>>),
                           Len(q.scopes) + 1>>)}} : TRUE

\* A do sugar that leaves the function literal out of the arguments
doSugar_Dropped(q, list) ==
    IF q.abort # "none" \/ tok(q) # "DO" THEN Res(q, list)
    ELSE Res(doBody(q).q, list)

\* if self.tok == token.DO { ... list = append(list, &ast.FuncLit{...}) }
doSugar(q, list) ==
    IF q.abort # "none" \/ tok(q) # "DO" THEN Res(q, list)
    ELSE CHOOSE e \in {appendExpr(v, list) : v \in {doBody(q)}} : TRUE

\* return &ast.CallExpr{Fun, Lparen, Args, Ellipsis, Rparen}
callExpr(r, fun, lparen, ellipsis, rparen) ==
    IF r.q.abort # "none" THEN Res(r.q, NoExpr)
    ELSE Res(r.q, CallExpr(fun, lparen, r.x, ellipsis, rparen))

\* parseCallOrConversion from the closing parenthesis on
callClosing(a, fun, lparen) ==
    CHOOSE e \in {callExpr(v, fun, lparen, a.ellipsis,
                  IF isIndent(a.q) /\ tok(a.q) # "RPAREN" THEN next(a.q).pos
                  ELSE a.q.pos) :
            v \in {doSugar(expectClosing(a.q, "RPAREN", "argument list"), a.list)}} : TRUE

\* parser.parseCallOrConversion
parseCallOrConversion(q, fun) ==
    IF q.abort # "none" THEN Res(q, NoExpr)
    ELSE CHOOSE e \in {callClosing(v, fun, q.pos) :
                 v \in {argLoop(Args(expect(q, "LPAREN"), <<>>, NoPos))}} : TRUE

\* A statement as a list of one
one(r) == Res(r.q, <<r.x>>)

\* A short form of parseBody that closes the block at its colon
shortClosed_AtColon(r, colon) ==
    IF r.q.abort # "none" THEN Res(r.q, NoBlock)
    ELSE Res(closeScope(r.q), BlockStmt(colon, r.x, colon, TRUE))

\* The short form of parseBody from the statement on: closeScope, and the
\* block closes at the current token.
shortClosed(r, colon) ==
    IF r.q.abort # "none" THEN Res(r.q, NoBlock)
    ELSE Res(closeScope(r.q), BlockStmt(colon, r.x, r.q.pos, TRUE))

\* The short form of parseBody after the colon
shortBody(q, colon) ==
    IF q.abort # "none" THEN Res(q, NoBlock)
    ELSE IF tok(q) = "SEMICOLON" THEN shortClosed(Res(expectSemi(q), <<>>), colon)
    ELSE CHOOSE e \in {shortClosed(one(v), colon) : v \in {Parse("parseSmallStmt", <<q>>)}} : TRUE

\* dedent := self.expect(token.DEDENT) and the block returned
dedentBlock(q, list, indent) ==
    IF expect(q, "DEDENT").abort # "none" THEN Res(expect(q, "DEDENT"), NoBlock)
    ELSE Res(expect(q, "DEDENT"), BlockStmt(indent, list, q.pos, FALSE))

\* The indented form of parseBody from the end of the statements on
bodyClosed(r, indent) ==
    IF r.q.abort # "none" THEN Res(r.q, NoBlock)
    ELSE dedentBlock(closeScope(closeLabelScope(r.q)), r.x, indent)

\* parseBody and parseBlockStmt where no indented block follows
emptyBlock(q) ==
    IF q.allowEmptyBlock THEN Res(q, BlockStmt(q.pos, <<>>, q.pos, FALSE))
    ELSE Res(errorExpected(q, q.pos, "block"), NoBlock)

\* The indented form of parseBody after expectSemi
indentedBody(q) ==
    IF q.abort # "none" THEN Res(q, NoBlock)
    ELSE IF tok(q) = "INDENT"
    THEN CHOOSE e \in {bodyClosed(v, q.pos) :
                 v \in {Parse("parseStmtList",
                              <<openLabelScope(openScope(expect(q, "INDENT")))>>)}} : TRUE
    ELSE emptyBlock(q)

\* parser.parseBody
parseBody(q, scope) ==
    IF q.abort # "none" THEN Res(q, NoBlock)
    ELSE IF tok(q) = "COLON"
    THEN shortBody([expect(q, "COLON") EXCEPT !.topScope = scope], q.pos)
    ELSE indentedBody(expectSemi(q))

\* The short form of parseBlockStmt from the statement on
smallClosed(r, colon) ==
    IF r.q.abort # "none" THEN Res(r.q, NoBlock)
    ELSE Res(expectSemi(closeScope(r.q)), BlockStmt(colon, r.x, r.q.pos, TRUE))

\* The indented form of parseBlockStmt from the end of the statements on
blockClosed(r, indent) ==
    IF r.q.abort # "none" THEN Res(r.q, NoBlock)
    ELSE dedentBlock(closeScope(r.q), r.x, indent)

\* The indented form of parseBlockStmt after expectSemi
indentedBlock(q) ==
    IF q.abort # "none" THEN Res(q, NoBlock)
    ELSE IF tok(q) = "INDENT"
    THEN CHOOSE e \in {blockClosed(v, q.pos) :
                 v \in {Parse("parseStmtList", <<openScope(expect(q, "INDENT"))>>)}} : TRUE
    ELSE emptyBlock(q)

\* parser.parseBlockStmt
parseBlockStmt(q) ==
    IF q.abort # "none" THEN Res(q, NoBlock)
    ELSE IF tok(q) = "COLON"
    THEN CHOOSE e \in {smallClosed(one(v), q.pos) :
                 v \in {Parse("parseSmallStmt", <<openScope(expect(q, "COLON"))>>)}} : TRUE
    ELSE indentedBlock(expectSemi(q))

\* parseSimpleStmt after the left-hand side; assignments, labels, sends and
\* increments are outside the model.
simpleStmt(r, mode) ==
    IF r.q.abort # "none" THEN Res(r.q, NoStmt)
    ELSE IF tok(r.q) \in {"DEFINE", "ASSIGN", "ADD_ASSIGN", "SUB_ASSIGN",
                          "MUL_ASSIGN", "QUO_ASSIGN", "REM_ASSIGN", "AND_ASSIGN",
                          "OR_ASSIGN", "XOR_ASSIGN", "SHL_ASSIGN", "SHR_ASSIGN",
                          "AND_NOT_ASSIGN"}
    THEN Res(unmodelled(r.q), NoStmt)
    ELSE IF Len(r.x) > 1
    THEN Res(errorExpected(r.q, NoPos, "1 expression"), NoStmt)
    ELSE IF tok(r.q) = "COLON" /\ mode = "labelOk" /\ r.x[1].kind = "Ident"
    THEN Res(unmodelled(r.q), NoStmt)
    ELSE IF tok(r.q) \in {"ARROW", "INC", "DEC"} THEN Res(unmodelled(r.q), NoStmt)
    ELSE Res(r.q, ExprStmt(r.x[1]))

\* parser.parseSimpleStmt
parseSimpleStmt(q, mode) == CHOOSE e \in {simpleStmt(v, mode) : v \in {parseLhsList(q)}} : TRUE

\* self.expectSemi() and the ReturnStmt returned
returnStmt(r, pos) ==
    IF r.q.abort # "none" THEN Res(r.q, NoStmt)
    ELSE Res(expectSemi(r.q), ReturnStmt(pos, r.x))

\* parseReturnStmt after the keyword
returnResults(q, pos) ==
    IF q.abort # "none" THEN Res(q, NoStmt)
    ELSE IF tok(q) \in {"SEMICOLON", "DEDENT"} THEN returnStmt(Res(q, <<>>), pos)
    ELSE CHOOSE e \in {returnStmt(v, pos) : v \in {parseRhsList(q)}} : TRUE

\* parser.parseReturnStmt
parseReturnStmt(q) == returnResults(expect(q, "RETURN"), q.pos)

\* parseBranchStmt from the label on: the identifier parsed last joins the
\* unresolved targets of the innermost label scope. With no label scope
\* open n is -1, and the index expression panics.
branchLabel(q, t) ==
    IF q.abort # "none" THEN Res(q, NoStmt)
    ELSE IF q.targetStack = <<>>
    THEN Res([q EXCEPT !.abort = "panic",
                       !.thrown = Msg("index out of range", "", NoPos)],
             NoStmt)
    ELSE Res(expectSemi([q EXCEPT !.targetStack[Len(q.targetStack)] =
                                     Append(@, Len(q.idents))]),
             BranchStmt(t, Expr("Ident", Len(q.idents))))

\* parseBranchStmt after the keyword
branchTarget(q, t) ==
    IF q.abort # "none" THEN Res(q, NoStmt)
    ELSE IF t # "FALLTHROUGH" /\ tok(q) = "IDENT" THEN branchLabel(parseIdent(q), t)
    ELSE Res(expectSemi(q), BranchStmt(t, NoExpr))

\* parser.parseBranchStmt
parseBranchStmt(q, t) ==
    IF q.abort # "none" THEN Res(q, NoStmt)
    ELSE branchTarget(expect(q, t), t)

\* parser.parseSmallStmt; declarations are outside the model.
parseSmallStmt(q) ==
    IF q.abort # "none" THEN Res(q, NoStmt)
    ELSE IF tok(q) \in ExprStarts THEN Parse("parseSimpleStmt", <<q, "basic">>)
    ELSE IF tok(q) = "RETURN" THEN Parse("parseReturnStmt", <<q>>)
    ELSE IF tok(q) \in {"BREAK", "CONTINUE", "GOTO", "FALLTHROUGH"}
    THEN parseBranchStmt(q, tok(q))
    ELSE IF tok(q) = "SEMICOLON" THEN Res(q, EmptyStmt(q.pos))
    ELSE IF tok(q) \in {"CONST", "TYPE", "VAR"}
    THEN Res(unmodelled(q), NoStmt)
    ELSE Res(errorExpected(q, q.pos, "small statement"), NoStmt)

\* if _, isLabeledStmt := s.(*ast.LabeledStmt); !isLabeledStmt { expectSemi() }
semiAfter(r) == IF r.q.abort # "none" THEN r ELSE Res(expectSemi(r.q), r.x)

\* parser.parseStmt; declarations, go, defer, branch, if, select and for
\* statements are outside the model.
parseStmt(q) ==
    IF q.abort # "none" THEN Res(q, NoStmt)
    ELSE IF tok(q) \in ExprStarts
    THEN CHOOSE e \in {semiAfter(v) : v \in {Parse("parseSimpleStmt", <<q, "labelOk">>)}} : TRUE
    ELSE IF tok(q) = "RETURN" THEN Parse("parseReturnStmt", <<q>>)
    ELSE IF tok(q) \in {"BREAK", "CONTINUE", "GOTO", "FALLTHROUGH"}
    THEN parseBranchStmt(q, tok(q))
    ELSE IF tok(q) = "SWITCH" THEN Parse("parseSwitchStmt", <<q>>)
    ELSE IF tok(q) = "DO" THEN Parse("parseBlockStmt", <<next(q)>>)
    ELSE IF tok(q) = "SEMICOLON"
    THEN IF Cur(q).lit = "\n" THEN Parse("parseBlockStmt", <<q>>)
         ELSE Res(next(q), EmptyStmt(q.pos))
    ELSE IF tok(q) = "COLON" THEN Parse("parseBlockStmt", <<q>>)
    ELSE IF tok(q) = "DEDENT" THEN Res(q, EmptyStmt(q.pos))
    ELSE IF tok(q) \in {"CONST", "TYPE", "VAR", "GO", "DEFER", "IF", "SELECT",
                        "FOR"}
    THEN Res(unmodelled(q), NoStmt)
    ELSE Res(errorExpected(q, q.pos, "statement"), NoStmt)

\* The loop of parseStmtList; r.x is the list.
stmtLoop(r) ==
    IF r.q.abort # "none" \/ tok(r.q) \in {"CASE", "DEFAULT", "DEDENT", "EOF"}
    THEN r
    ELSE CHOOSE e \in {stmtLoop(appendExpr(v, r.x)) : v \in {Parse("parseStmt", <<r.q>>)}} : TRUE

\* parser.parseStmtList
parseStmtList(q) == stmtLoop(Res(q, <<>>))

\* parseCaseClause from the end of its statements on
caseClosed(r, pos, list, colon) ==
    IF r.q.abort # "none" THEN Res(r.q, NoStmt)
    ELSE Res(closeScope([r.q EXCEPT !.allowEmptyBlock = FALSE]),
             CaseClause(pos, list, colon, r.x))

\* parseCaseClause from the colon on; h.x is the list of the case.
caseBody(h, pos) ==
    IF h.q.abort # "none" THEN Res(h.q, NoStmt)
    ELSE CHOOSE e \in {caseClosed(v, pos, h.x, h.q.pos) :
                 v \in {Parse("parseStmtList",
                              <<[openScope(expect(h.q, "COLON")) EXCEPT
                                    !.allowEmptyBlock = TRUE]>>)}} : TRUE

\* The head of a case clause
caseHead(q) ==
    IF tok(q) = "CASE" THEN parseRhsList(next(q))
    ELSE Res(expect(q, "DEFAULT"), <<>>)

\* parser.parseCaseClause, of an expression switch
parseCaseClause(q) == CHOOSE e \in {caseBody(v, q.pos) : v \in {caseHead(q)}} : TRUE

\* The loop of parseSwitchStmt over the clauses
caseLoop(r) ==
    IF r.q.abort # "none" \/ tok(r.q) \notin {"CASE", "DEFAULT"} THEN r
    ELSE CHOOSE e \in {caseLoop(appendExpr(v, r.x)) : v \in {Parse("parseCaseClause", <<r.q>>)}} : TRUE

\* parseSwitchStmt from the end of the clauses on; the deferred closeScope
\* runs last.
switchClosed(r, pos, indent) ==
    IF r.q.abort # "none" THEN Res(r.q, NoStmt)
    ELSE IF expect(r.q, "DEDENT").abort # "none"
    THEN Res(expect(r.q, "DEDENT"), NoStmt)
    ELSE Res(closeScope(expect(r.q, "DEDENT")),
             SwitchStmt(pos, BlockStmt(indent, r.x, r.q.pos, FALSE)))

\* parseSwitchStmt after expectSemi
switchBody(q, pos) ==
    IF q.abort # "none" THEN Res(q, NoStmt)
    ELSE CHOOSE e \in {switchClosed(v, pos, q.pos) :
                 v \in {caseLoop(Res(expect(q, "INDENT"), <<>>))}} : TRUE

\* parser.parseSwitchStmt, of a switch without init statement and tag;
\* the others are outside the model.
parseSwitchStmt(q) ==
    IF expect(q, "SWITCH").abort # "none" THEN Res(expect(q, "SWITCH"), NoStmt)
    ELSE IF ~isIndent(expect(q, "SWITCH"))
    THEN Res(unmodelled(expect(q, "SWITCH")), NoStmt)
    ELSE switchBody(expectSemi(openScope(expect(q, "SWITCH"))), q.pos)

----------------------------------------------------------------------------
(* Function declarations and the file                                     *)

\* An *ast.Field: its names and its type.
Field(names, typ) == [Names |-> names, Type |-> typ]

NoField == Field(<<>>, NoExpr)

parseReceiver_Undeclared(q, typ, scope) ==
    IF q.abort # "none" THEN [q |-> q, field |-> NoField]
    ELSE [q |-> resolveExpr(NewIdents(q, <<"self">>, NoPos), typ),
          field |-> Field(<<Len(q.idents) + 1>>, typ)]

\* parser.parseReceiver
parseReceiver(q, typ, scope) ==
    IF q.abort # "none" THEN [q |-> q, field |-> NoField]
    ELSE [q |-> resolveExpr(
                    declare(NewIdents(q, <<"self">>, NoPos),
                            Decl("Field", <<Ident(NoPos, "self")>>, NoPos),
                            0, scope, "Var", <<Len(q.idents) + 1>>),
                    typ),
          field |-> Field(<<Len(q.idents) + 1>>, typ)]

\* An *ast.FuncDecl: the fields of its receiver list (none when Recv is
\* nil), its name, the line of its func keyword, the function scope
\* parseFuncDecl made for it, and the fields of Type.Params, which the
\* parser is not followed into.
FuncDecl(recv, name, pos, scope, body) ==
    [Recv |-> recv, Name |-> name, Func |-> pos, scope |-> scope, Body |-> body,
     Params |-> <<>>]
NoFuncDecl == FuncDecl(<<>>, 0, NoPos, 0, NoBlock)

\* parseFuncDecl once the body is parsed: a function that is no method and
\* not init is declared in the package scope.
funcDeclared(b, recv, ident, pos, scope) ==
    IF b.q.abort # "none" THEN [q |-> b.q, decl |-> NoFuncDecl]
    ELSE [q |-> IF recv = <<>> /\ b.q.idents[ident].Name # "init"
                THEN declare(b.q,
                         Decl("FuncDecl",
                              <<Ident(b.q.idents[ident].NamePos,
                                      b.q.idents[ident].Name)>>, NoPos),
                         0, b.q.pkgScope, "Fun", <<ident>>)
                ELSE b.q,
          decl |-> FuncDecl(recv, ident, pos, scope, b.x)]

\* parseFuncDecl from the signature on. The name is the identifier parsed
\* last.
funcSignature(h, recv, pos, scope) ==
    CHOOSE e \in {funcDeclared(v, recv, Len(h.idents), pos, scope) :
            v \in {Parse("parseBody",
                         <<Parse("parseSignature", <<h, scope>>), scope>>)}} : TRUE

\* *T.ident
funcStarMethod(r, pos, scope) ==
    funcSignature(parseIdent(expect(r.q, "PERIOD")), <<r.field>>, pos, scope)

\* T.ident
funcMethod(r, pos, scope) ==
    funcSignature(parseIdent(next(r.q)), <<r.field>>, pos, scope)

\* parseFuncDecl after the first identifier
funcNamed(b1, pos, scope) ==
    IF b1.abort = "none" /\ tok(b1) = "PERIOD"
    THEN funcMethod(parseReceiver(b1, Expr("Ident", Len(b1.idents)), scope),
                    pos, scope)
    ELSE funcSignature(b1, <<>>, pos, scope)

\* parseFuncDecl after the star and the identifier of a pointer receiver
funcStarType(a1, pos, scope) ==
    funcStarMethod(parseReceiver(a1, Expr("Star", Len(a1.idents)), scope),
                   pos, scope)

\* parseFuncDecl after the keyword, in the function scope
funcStart(q1, pos, scope) ==
    IF q1.abort # "none" THEN [q |-> q1, decl |-> NoFuncDecl]
    ELSE IF tok(q1) = "MUL"
    THEN funcStarType(
             parseIdent(expect([q1 EXCEPT
                                   !.scopes = Append(@, NewScope(q1.topScope))],
                               "MUL")),
             pos, scope)
    ELSE funcNamed(
             parseIdent([q1 EXCEPT !.scopes = Append(@, NewScope(q1.topScope))]),
             pos, scope)

\* parser.parseFuncDecl
parseFuncDecl(q) == funcStart(expect(q, "FUNC"), q.pos, Len(q.scopes) + 1)

\* The productions by name: a production calls another through Parse.
Parse(prod, a) ==
    CASE prod = "parseOperand" -> parseOperand(a[1], a[2])
      [] prod = "parseUnaryExpr" -> parseUnaryExpr(a[1], a[2])
      [] prod = "parseBinaryExpr" -> parseBinaryExpr(a[1], a[2], a[3])
      [] prod = "parseRhsOrType" -> parseRhsOrType(a[1])
      [] prod = "parseExprList" -> parseExprList(a[1], a[2])
      [] prod = "parseCallOrConversion" -> parseCallOrConversion(a[1], a[2])
      [] prod = "parseBody" -> parseBody(a[1], a[2])
      [] prod = "parseBlockStmt" -> parseBlockStmt(a[1])
      [] prod = "parseSmallStmt" -> parseSmallStmt(a[1])
      [] prod = "parseSimpleStmt" -> parseSimpleStmt(a[1], a[2])
      [] prod = "parseReturnStmt" -> parseReturnStmt(a[1])
      [] prod = "parseStmt" -> parseStmt(a[1])
      [] prod = "parseStmtList" -> parseStmtList(a[1])
      [] prod = "parseSwitchStmt" -> parseSwitchStmt(a[1])
      [] prod = "parseCaseClause" -> parseCaseClause(a[1])
      [] prod = "parseSignature" -> parseSignature(a[1], a[2])
      [] prod = "parseFuncDecl" -> parseFuncDecl(a[1])

\* parser.parseDecl; parseGenDecl is outside the model, and sync follows
\* errorExpected.
parseDecl(q) ==
    IF tok(q) \in {"CONST", "VAR", "TYPE"}
    THEN [q |-> unmodelled(q), decl |-> NoFuncDecl]
    ELSE IF tok(q) = "FUNC" THEN Parse("parseFuncDecl", <<q>>)
    ELSE [q |-> unmodelled(errorExpected(q, q.pos, "declaration")),
          decl |-> NoFuncDecl]

\* parseFile up to self.pkgScope = self.topScope; it returns nil on errors.
parseFileStart(q) ==
    LET clause(q3) ==
            IF q3.abort # "none" THEN q3
            ELSE IF Len(q3.errors) # 0 THEN [q3 EXCEPT !.done = TRUE]
            ELSE [openScope(q3) EXCEPT !.pkgScope = Len(q3.scopes) + 1]
        named(q1) ==
            clause(expectSemi(
                IF q1.abort = "none" /\ q1.idents[Len(q1.idents)].Name = "_"
                THEN error(q1, q1.pos, Msg("invalid package name", "_", NoPos))
                ELSE q1))
    IN  IF Len(q.errors) # 0 THEN [q EXCEPT !.done = TRUE]
        ELSE named(parseIdent(expect(q, "PACKAGE")))

----------------------------------------------------------------------------
(* SpecSerialize: FileSet.Write followed by FileSet.Read *)

InitIdle ==
    /\ ppc = [k \in 1..NParsers |-> "idle"]
    /\ plen = [k \in 1..NParsers |-> 0]
    /\ pbase = [k \in 1..NParsers |-> 0]
    /\ pfile = [k \in 1..NParsers |-> NoFile]

SerInit ==
    /\ \E ins \in InputSeqs : fset = BuildFS(NewFileSet("A"), ins)
    /\ wire = NoWire
    /\ \E prior \in 0..1 :
          rset = IF prior = 0 THEN NewFileSet("B")
                 ELSE AddFile(NewFileSet("B"), "old.igo", 1, 1)
    /\ rerr = "none"
    /\ InitIdle
    /\ ParIdle

\* FileSet.Write with an encoder that stores the record or fails.
Write ==
    /\ wire = NoWire
    /\ rerr = "none"
    /\ \E ok \in BOOLEAN :
          IF ok THEN wire' = WriteFS(fset) /\ rerr' = "none"
          ELSE wire' = wire /\ rerr' = "err"
    /\ UNCHANGED <<fset, rset>>
    /\ UNCHANGED <<initVars, parVars>>

\* FileSet.Read with a decoder that yields the stored record or fails.
Read ==
    /\ wire # NoWire
    /\ rerr = "none"
    /\ \E ok \in BOOLEAN :
          IF ok THEN rset' = ReadFS(rset, wire) /\ rerr' = "ok"
          ELSE rset' = rset /\ rerr' = "err"
    /\ UNCHANGED <<fset, wire>>
    /\ UNCHANGED <<initVars, parVars>>

SerNext == Write \/ Read

SpecSerialize == SerInit /\ [][SerNext]_vars

\* Equality of files up to the owning set: name, base, size, lines, infos.
SameFile(f, g) ==
    /\ f.name = g.name
    /\ f.base = g.base
    /\ f.size = g.size
    /\ f.lines = g.lines
    /\ f.infos = g.infos

SameFileSet(s, t) ==
    /\ s.base = t.base
    /\ Len(s.files) = Len(t.files)
    /\ \A i \in 1..Len(s.files) : SameFile(s.files[i], t.files[i])

\* C1: after Write and a successful Read of the written record, the FileSet
\* read into has the base of the written one and the same files in the same
\* order, each with the same name, base, size, lines and infos.
C1_ReadWriteRoundTrip ==
    rerr = "ok" => /\ SameFileSet(rset, fset)
                   /\ \A i \in 1..Len(rset.files) : rset.files[i].set = rset.id
                   /\ rset.last = 0

\* A round trip of a set with two files, line tables and line infos, into a
\* set that held another file before.
C1_Witness ==
    /\ rerr = "ok"
    /\ Len(fset.files) = 2
    /\ fset.files[2].infos # <<>>
    /\ \E i \in 1..2 : Len(fset.files[i].lines) = 2
    /\ fset.base > 4
    /\ rset.id = "B"

----------------------------------------------------------------------------
(* SpecInit: parsers initialised concurrently on one shared FileSet *)

FsIdle ==
    /\ fset = NewFileSet("A")
    /\ wire = NoWire
    /\ rset = NewFileSet("B")
    /\ rerr = "none"

\* len(src) of the source each parser is given.
SrcLens == 0..MaxSize

ConcInit ==
    /\ FsIdle
    /\ ppc = [k \in 1..NParsers |-> "init"]
    /\ plen \in [1..NParsers -> SrcLens]
    /\ pbase = [k \in 1..NParsers |-> 0]
    /\ pfile = [k \in 1..NParsers |-> NoFile]
    /\ ParIdle

\* parser.init, first half: the argument fset.Base() is evaluated.
InitReadBase(k) ==
    /\ ppc[k] = "init"
    /\ ppc' = [ppc EXCEPT ![k] = "read"]
    /\ pbase' = [pbase EXCEPT ![k] = Base(fset)]
    /\ UNCHANGED <<plen, pfile>>
    /\ UNCHANGED <<fsVars, parVars>>

\* parser.init, second half: fset.AddFile(filename, base, len(src)) and the
\* parser-private rest of init.
InitAddFile(k) ==
    /\ ppc[k] = "read"
    /\ LET s == AddFile(fset, "a.igo", pbase[k], plen[k])
       IN  /\ fset' = s
           /\ pfile' = [pfile EXCEPT ![k] = s.files[Len(s.files)]]
    /\ ppc' = [ppc EXCEPT ![k] = "done"]
    /\ UNCHANGED <<plen, pbase, wire, rset, rerr>>
    /\ UNCHANGED parVars

ConcNext == \E k \in 1..NParsers : InitReadBase(k) \/ InitAddFile(k)

SpecInit == ConcInit /\ [][ConcNext]_vars

\* The positions a file occupies: [base, base+size].
Range(f) == f.base..(f.base + f.size)

\* C2: in every interleaving of concurrent parser initialisations the files
\* obtained occupy pairwise disjoint position ranges and the bases of the
\* files added one after the other strictly increase.
C2_DisjointRanges ==
    /\ \A k, q \in 1..NParsers :
          (k # q /\ pfile[k] # NoFile /\ pfile[q] # NoFile)
              => Range(pfile[k]) \cap Range(pfile[q]) = {}
    /\ \A i, j \in 1..Len(fset.files) :
          i < j => fset.files[i].base < fset.files[j].base

----------------------------------------------------------------------------
(* SpecErr: the parser's error list under reports from the parser, the     *)
(* scanner and the label resolution of closeLabelScope                     *)

OtherVars == <<fsVars, initVars>>
IdleVars == <<OtherVars, hist>>

AllIdle == FsIdle /\ InitIdle /\ hist = <<>>

\* The label scope of a function body, with the label L declared or not.
LabelScopes ==
    {NewScope(0),
     [NewScope(0) EXCEPT !.Objects["L"] =
         Object(1, "Lbl", "L", Decl("LabeledStmt", <<Ident(1, "L")>>, NoPos), 0)]}

ErrInit ==
    /\ AllIdle
    /\ \E m \in SUBSET {"AllErrors", "DeclarationErrors"}, ls \in LabelScopes :
          p = [P0 EXCEPT !.mode = m, !.scopes = <<ls>>, !.labelScope = 1,
                         !.targetStack = <<<<>>>>, !.nobj = 1]
    /\ op = NoOp

Running == p.abort = "none"

\* next() reaches a token of the next line that holds an error or a label
\* use; lines that hold neither are not counted.
NextLine(maxLine) ==
    /\ Running
    /\ p.pos < maxLine
    /\ \/ p.errors # <<>> /\ p.errors[Len(p.errors)].Line = p.pos
       \/ \E i \in 1..Len(p.idents) : p.idents[i].NamePos = p.pos
    /\ p' = [p EXCEPT !.pos = @ + 1, !.reps = <<>>]
    /\ op' = [name |-> "next"]
    /\ UNCHANGED IdleVars

\* A production reports at the current token: self.error(self.pos, msg),
\* as atComma and expectClosing do.
Report(maxErrs) ==
    /\ Running
    /\ "AllErrors" \in p.mode => Len(p.errors) < maxErrs
    /\ p' = error([p EXCEPT !.reps = <<>>], p.pos, Msg("missing ','", "", NoPos))
    /\ op' = [name |-> "error"]
    /\ UNCHANGED IdleVars

\* The scanner reports through the handler while the next token is scanned.
Scan(maxErrs) ==
    /\ Running
    /\ Len(p.errors) < maxErrs
    /\ Cardinality({i \in 1..Len(p.errors) : p.errors[i].Msg.text = "scan"}) < MaxScanErrs
    /\ p' = eh([p EXCEPT !.reps = <<>>], p.pos, Msg("scan", "", NoPos))
    /\ op' = [name |-> "eh"]
    /\ UNCHANGED IdleVars

\* parseBranchStmt with a label: the label joins the unresolved targets.
Branch ==
    /\ Running
    /\ p.targetStack # <<>>
    /\ Len(p.idents) < MaxTargets
    /\ \E nm \in {"L", "a"} :
          LET n == Len(p.targetStack)
              i == Len(p.idents) + 1
          IN  p' = [p EXCEPT !.idents = Append(@, Ident(p.pos, nm)),
                             !.targetStack[n] = Append(@, i),
                             !.reps = <<>>]
    /\ op' = [name |-> "branch"]
    /\ UNCHANGED IdleVars

\* The function body ends: closeLabelScope resolves its labels.
CloseLabelScope ==
    /\ Running
    /\ p.targetStack # <<>>
    /\ p' = closeLabelScope([p EXCEPT !.reps = <<>>])
    /\ op' = [name |-> "closeLabelScope"]
    /\ UNCHANGED IdleVars

\* The next function body begins.
OpenLabelScope ==
    /\ Running
    /\ p.targetStack = <<>>
    /\ Len(p.scopes) < MaxTargets + 1
    /\ p' = openLabelScope([p EXCEPT !.reps = <<>>])
    /\ op' = [name |-> "openLabelScope"]
    /\ UNCHANGED IdleVars

ErrNext ==
    \/ NextLine(MaxLine)
    \/ Report(MaxErrs)
    \/ Scan(MaxErrs)
    \/ Branch
    \/ CloseLabelScope
    \/ OpenLabelScope

SpecErr == ErrInit /\ [][ErrNext]_vars

----------------------------------------------------------------------------
(* SpecCap: the error cap, under reports of the parser and the scanner *)

\* Lines and errors enough to pass the cap.
CapRoom == ErrorCap + 2

CapInit ==
    /\ AllIdle
    /\ \E m \in SUBSET {"AllErrors"} : p = [P0 EXCEPT !.mode = m]
    /\ op = NoOp

CapNext == NextLine(CapRoom) \/ Report(CapRoom) \/ Scan(CapRoom)

SpecCap == CapInit /\ [][CapNext]_vars

\* Whether error() recorded the entry (the scanner's handler did otherwise).
FromParser(e) == e.Msg.text # "scan"

\* C4 as claimed: with AllErrors unset the error list never holds more than
\* 10 entries recorded by error(), and the report of the 11th raises bailout.
C4_AtMostTenErrors ==
    "AllErrors" \notin p.mode =>
        \A i \in 1..Len(p.errors) : FromParser(p.errors[i]) => i <= ErrorCap

\* C4, amended: with AllErrors unset error() records an error only while the
\* list holds at most 10 entries, so an entry it recorded is at most the
\* 11th; it raises bailout only for a report that finds more than 10
\* entries, and it does so for every such report that is not on the line of
\* the last entry. With AllErrors set bailout is never raised.
C4_CapIsEleven ==
    /\ "AllErrors" \notin p.mode =>
          /\ \A i \in 1..Len(p.errors) :
                FromParser(p.errors[i]) => i <= ErrorCap + 1
          /\ p.abort = "bailout" => Len(p.errors) > ErrorCap
          /\ ( /\ op.name = "error"
               /\ Len(p.errors) > ErrorCap
               /\ p.errors[Len(p.errors)].Line # p.reps[1].Line )
                => p.abort = "bailout"
    /\ "AllErrors" \in p.mode => p.abort # "bailout"

\* Eleven errors of the parser, each on a line of its own, are recorded and
\* the twelfth report raises bailout.
C4_Witness ==
    /\ "AllErrors" \notin p.mode
    /\ p.abort = "bailout"
    /\ Len(p.errors) = ErrorCap + 1
    /\ \A i \in 1..Len(p.errors) : FromParser(p.errors[i]) /\ p.errors[i].Line = i
    /\ p.reps = <<[Line |-> ErrorCap + 2, Msg |-> Msg("missing ','", "", NoPos)]>>

\* C5 as claimed: with AllErrors unset the recorded list holds at most one
\* error for any source line.
C5_OneErrorPerLine ==
    "AllErrors" \notin p.mode =>
        \A i, j \in 1..Len(p.errors) :
            p.errors[i].Line = p.errors[j].Line => i = j

IsSuffix(t, u) ==
    /\ Len(t) <= Len(u)
    /\ \A i \in 1..Len(t) : t[i] = u[Len(u) - Len(t) + i]

\* C5, amended: with AllErrors unset error() discards a report exactly when
\* it is on the line of the last recorded entry: no entry recorded by
\* error() is on the line of the entry just before it, and after a report
\* that did not bail out the last entry is on the report's line. The
\* scanner's handler records every error in either mode. With AllErrors set
\* every report handed to error() is recorded, in order.
C5_DedupAgainstLastOnly ==
    /\ "AllErrors" \notin p.mode =>
          /\ \A i \in 2..Len(p.errors) :
                FromParser(p.errors[i]) => p.errors[i].Line # p.errors[i - 1].Line
          /\ (op.name = "error" /\ p.abort = "none")
                => p.errors[Len(p.errors)].Line = p.reps[1].Line
    /\ ("AllErrors" \in p.mode /\ op.name \in {"error", "closeLabelScope"})
          => IsSuffix(p.reps, p.errors)
    /\ op.name = "eh" =>
          p.errors[Len(p.errors)] = [Line |-> p.pos, Msg |-> Msg("scan", "", NoPos)]

\* A report of the parser was discarded for being on the line of the last
\* entry, a scanner error, while an earlier line holds two entries.
C5_Witness ==
    /\ "AllErrors" \notin p.mode
    /\ op.name = "error"
    /\ p.abort = "none"
    /\ ~FromParser(p.errors[Len(p.errors)])
    /\ \E i, j \in 1..Len(p.errors) : i < j /\ p.errors[i].Line = p.errors[j].Line

----------------------------------------------------------------------------
(* SpecScopeAPI: calls of ast.NewScope, Scope.Insert and Scope.Lookup *)

ApiNames == {"a", "b"}

ApiInit ==
    /\ FsIdle
    /\ InitIdle
    /\ p = [P0 EXCEPT !.scopes = <<NewScope(0)>>]
    /\ op = NoOp
    /\ hist = <<>>

\* ast.NewScope(outer)
ApiNewScope ==
    /\ Len(p.scopes) < MaxScopes
    /\ \E outer \in 0..Len(p.scopes) :
          /\ p' = [p EXCEPT !.scopes = Append(@, NewScope(outer))]
          /\ op' = [name |-> "NewScope", outer |-> outer]
    /\ UNCHANGED <<OtherVars, hist>>

\* s.Insert(obj) with an object fresh from ast.NewObj
ApiInsert ==
    /\ p.nobj < MaxObjs
    /\ \E s \in 1..Len(p.scopes), nm \in ApiNames :
          LET obj == Object(p.nobj + 1, "Var", nm, NoDecl, 0)
              r == Insert(p.scopes[s], obj)
          IN  /\ p' = [p EXCEPT !.scopes[s] = r.scope, !.nobj = @ + 1]
              /\ op' = [name |-> "Insert", self |-> s, obj |-> obj, ret |-> r.alt]
              /\ hist' = Append(hist, [self |-> s, obj |-> obj])
    /\ UNCHANGED OtherVars

\* s.Lookup(name)
ApiLookup ==
    /\ \E s \in 1..Len(p.scopes), nm \in ApiNames :
          op' = [name |-> "Lookup", self |-> s, arg |-> nm,
                 ret |-> Lookup(p.scopes[s], nm)]
    /\ UNCHANGED <<p, hist, OtherVars>>

ApiNext == ApiNewScope \/ ApiInsert \/ ApiLookup

SpecScopeAPI == ApiInit /\ [][ApiNext]_vars

\* The Insert calls on scope s with an object named n, in call order.
InsertsOf(s, n) == SelectSeq(hist, LAMBDA c : c.self = s /\ c.obj.Name = n)

FirstInserted(s, n) ==
    IF InsertsOf(s, n) = <<>> THEN nil ELSE InsertsOf(s, n)[1].obj

LastInserted(s, n) ==
    IF InsertsOf(s, n) = <<>> THEN nil
    ELSE InsertsOf(s, n)[Len(InsertsOf(s, n))].obj

\* C6 as claimed: after any sequence of Insert calls s.Lookup(n) is the object
\* of the most recent Insert call on s for n, nil when there was none.
C6_LookupMostRecent ==
    /\ \A s \in 1..Len(p.scopes), n \in ApiNames :
          Lookup(p.scopes[s], n) = LastInserted(s, n)
    /\ op.name = "Lookup" => op.ret = LastInserted(op.self, op.arg)

\* C6, amended: s.Lookup(n) is the object of the first Insert call on s for
\* n (later calls for the name leave the scope as it is), and nil when n was
\* never inserted into s itself, whatever its outer scopes hold.
C6_LookupFirstInserted ==
    /\ \A s \in 1..Len(p.scopes), n \in ApiNames :
          Lookup(p.scopes[s], n) = FirstInserted(s, n)
    /\ op.name = "Lookup" => op.ret = FirstInserted(op.self, op.arg)

\* Lookup ran on a nested scope for a name inserted into it twice, while the
\* outer scope holds a name the nested one lacks.
C6_Witness ==
    /\ op.name = "Lookup"
    /\ Len(InsertsOf(op.self, op.arg)) = 2
    /\ p.scopes[op.self].Outer # 0
    /\ \E n \in ApiNames :
          /\ Lookup(p.scopes[p.scopes[op.self].Outer], n) # nil
          /\ Lookup(p.scopes[op.self], n) = nil

\* C7: Scope.Insert(obj) on a scope that holds an object alt of obj's name
\* leaves every scope unchanged and returns alt; otherwise it adds obj under
\* its name, changes no other entry and no other scope, and returns nil.
C7_InsertFrame ==
    [][op'.name = "Insert" =>
        LET s == op'.self
            o == op'.obj
            alt == p.scopes[s].Objects[o.Name]
        IN  IF alt # nil
            THEN p'.scopes = p.scopes /\ op'.ret = alt
            ELSE /\ op'.ret = nil
                 /\ p'.scopes[s].Objects[o.Name] = o
                 /\ \A n \in Names \ {o.Name} :
                       p'.scopes[s].Objects[n] = p.scopes[s].Objects[n]
                 /\ p'.scopes[s].Outer = p.scopes[s].Outer
                 /\ Len(p'.scopes) = Len(p.scopes)
                 /\ \A t \in 1..Len(p.scopes) : t # s => p'.scopes[t] = p.scopes[t]
    ]_vars

\* Insert found the name taken in a nested scope and returned the holder.
C7_Witness ==
    /\ op.name = "Insert"
    /\ op.ret # nil
    /\ op.ret.id # op.obj.id
    /\ p.scopes[op.self].Outer # 0

----------------------------------------------------------------------------
(* SpecDeclare and SpecResolve: the scoping calls a parse makes between    *)
(* the package clause and the end of the file                             *)

DeclNames == {"_", "a"}
UseNames == {"_", "a", "b"}

\* parseFile has opened the package scope. In this specification op is the
\* last call of declare.
ScopeInit ==
    /\ AllIdle
    /\ \E m \in SUBSET {"AllErrors", "DeclarationErrors"} :
          p = [openScope([P0 EXCEPT !.mode = m]) EXCEPT !.pkgScope = 1]
    /\ op = NoOp

Parsing == Running /\ ~p.done

\* A block begins.
OpenScope ==
    /\ Parsing
    /\ Len(p.scopes) < MaxScopes
    /\ p' = openScope([p EXCEPT !.reps = <<>>])
    /\ UNCHANGED <<op, IdleVars>>

\* A block ends.
CloseScope ==
    /\ Parsing
    /\ p.topScope # p.pkgScope
    /\ p' = closeScope([p EXCEPT !.reps = <<>>])
    /\ UNCHANGED <<op, IdleVars>>

\* The current token of a production that starts a line of its own, the
\* earlier identifiers being on a line each.
LineOfNext(q) == Len(q.idents) + 1

\* The name lists of the declarations modelled, with their node and target:
\* a value spec into the top scope and a function into the package scope;
\* with lists, also a value spec of two names, a parameter field into a
\* scope other than the package's, and the receiver field, whose identifier
\* "self" has no position.
DeclShapes(q, lists) ==
    {[kind |-> "ValueSpec", names |-> <<nm>>, scope |-> q.topScope] :
        nm \in DeclNames}
    \cup {[kind |-> "FuncDecl", names |-> <<nm>>, scope |-> q.pkgScope] :
        nm \in DeclNames}
    \cup {[kind |-> "ValueSpec", names |-> ns, scope |-> q.topScope] :
        ns \in IF lists THEN [1..2 -> DeclNames] ELSE {}}
    \cup {[kind |-> k, names |-> <<"self">>, scope |-> q.topScope] :
        k \in IF lists /\ q.topScope # q.pkgScope
              THEN {"Field", "Receiver"} ELSE {}}

Declare(lists) ==
    /\ Parsing
    /\ \E d \in DeclShapes(p, lists) :
          LET n == Len(d.names)
              pos == IF d.kind = "Receiver" THEN NoPos ELSE LineOfNext(p)
              q == NewIdents([p EXCEPT !.reps = <<>>, !.pos = LineOfNext(p)],
                             d.names, pos)
              ids == [k \in 1..n |-> Len(p.idents) + k]
              node == Decl(IF d.kind = "Receiver" THEN "Field" ELSE d.kind,
                           [k \in 1..n |-> Ident(pos, d.names[k])], NoPos)
              okind == IF d.kind = "FuncDecl" THEN "Fun" ELSE "Var"
          IN  /\ Len(p.idents) + n <= MaxIdents
              /\ p' = declare(q, node, 0, d.scope, okind, ids)
              /\ op' = [name |-> "declare", scope |-> d.scope, idents |-> ids]
    /\ UNCHANGED IdleVars

\* An expression is used, the identifier x or the pointer type *x:
\* resolve(x), or tryResolve(x, false) for what may be a field name in a
\* composite literal. Here op is the call.
Resolve ==
    /\ Parsing
    /\ Len(p.idents) < MaxIdents
    /\ \E nm \in UseNames, collect \in BOOLEAN, kind \in {"Ident", "Star"} :
          LET q == NewIdents([p EXCEPT !.reps = <<>>, !.pos = LineOfNext(p)],
                             <<nm>>, LineOfNext(p))
              i == Len(p.idents) + 1
          IN  /\ p' = tryResolveExpr(q, Expr(kind, i), collect)
              /\ op' = [name |-> "tryResolve", x |-> Expr(kind, i),
                        collect |-> collect]
    /\ UNCHANGED IdleVars

\* The declarations end at EOF.
FileEnd ==
    /\ Parsing
    /\ p' = parseFileEnd([p EXCEPT !.reps = <<>>])
    /\ UNCHANGED <<op, IdleVars>>

DeclareNext ==
    \/ OpenScope
    \/ CloseScope
    \/ Declare(TRUE)

SpecDeclare == ScopeInit /\ [][DeclareNext]_vars

ResolveNext ==
    \/ OpenScope
    \/ CloseScope
    \/ Declare(FALSE)
    \/ Resolve
    \/ FileEnd

SpecResolve == ScopeInit /\ [][ResolveNext]_vars

\* C8: a call of declare hands to error(), for each identifier in turn, one
\* report "<name> redeclared in this block" exactly when DeclarationErrors
\* is set, the name is not blank and the target scope already holds the name
\* (from before the call or from an earlier identifier of it); the report
\* cites the position of the object the scope holds when that position is
\* valid; the scope keeps the object it held, and the new object is only
\* linked to its identifier.
C8_RedeclarationErrors ==
    [][p'.nobj > p.nobj =>
        LET s == op'.scope
            ids == op'.idents
            nm(k) == p'.idents[ids[k]].Name
            held(k) == p.scopes[s].Objects[nm(k)]
            keeper(k) == p'.scopes[s].Objects[nm(k)]
            Redecl == {k \in 1..Len(ids) :
                          /\ nm(k) # "_"
                          /\ \/ held(k) # nil
                             \/ \E j \in 1..(k - 1) : nm(j) = nm(k)}
            Reported == IF "DeclarationErrors" \in p.mode THEN Redecl ELSE {}
            ks == SelectSeq([k \in 1..Len(ids) |-> k], LAMBDA k : k \in Reported)
            Expected(k) == [Line |-> p'.idents[ids[k]].NamePos,
                            Msg |-> Msg("redeclared", nm(k), Pos(keeper(k)))]
        IN  /\ p'.abort = "none"
            /\ p'.reps = [r \in 1..Len(ks) |-> Expected(ks[r])]
            /\ \A k \in 1..Len(ids) :
                  /\ held(k) # nil => keeper(k) = held(k)
                  /\ k \in Redecl => keeper(k).id # p'.idents[ids[k]].Obj.id
                  /\ (nm(k) # "_" /\ k \notin Redecl) => keeper(k) = p'.idents[ids[k]].Obj
            /\ \A n \in Names :
                  (n = "_" \/ \A k \in 1..Len(ids) : nm(k) # n)
                      => p'.scopes[s].Objects[n] = p.scopes[s].Objects[n]
            /\ "AllErrors" \in p.mode => p'.errors = p.errors \o p'.reps
    ]_vars

\* declare ran on a blank identifier and a name the scope held, and the one
\* report it made cites the earlier declaration's line.
C8_Witness ==
    /\ op.name = "declare"
    /\ "DeclarationErrors" \in p.mode
    /\ Len(op.idents) = 2
    /\ p.idents[op.idents[1]].Name = "_"
    /\ Len(p.reps) = 1
    /\ p.reps[1].Msg.prev # NoPos
    /\ p.reps[1].Msg.prev < p.reps[1].Line

\* C9: when parseFile returns a File, the identifiers collected as
\* unresolved (the ones that carry the sentinel) are each either linked to
\* the package-scope object of their name, or in File.Unresolved with a nil
\* object; File.Unresolved is the collected identifiers whose name the
\* package scope lacks, in collection order; no identifier carries the
\* sentinel any more.
C9_EndOfFileResolution ==
    [][(p.file = NilFile /\ p'.file # NilFile) =>
        LET coll == p.unresolved
            pkg == p'.scopes[p'.file.Scope]
            Absent(id) == Lookup(pkg, p'.idents[id].Name) = nil
            InFile(id) == \E k \in 1..Len(p'.file.Unresolved) :
                             p'.file.Unresolved[k] = id
        IN  /\ p'.file.Scope = p.pkgScope
            /\ \A i \in 1..Len(p.idents) :
                  p.idents[i].Obj = unresolved <=>
                      \E k \in 1..Len(coll) : coll[k] = i
            /\ \A k \in 1..Len(coll) :
                  IF Absent(coll[k])
                  THEN p'.idents[coll[k]].Obj = nil /\ InFile(coll[k])
                  ELSE /\ p'.idents[coll[k]].Obj =
                              Lookup(pkg, p'.idents[coll[k]].Name)
                       /\ ~InFile(coll[k])
            /\ p'.file.Unresolved = SelectSeq(coll, Absent)
            /\ \A i \in 1..Len(p'.idents) : p'.idents[i].Obj # unresolved
    ]_vars

\* parseFile returned a File that lists some of the collected identifiers
\* and has linked the others.
C9_Witness ==
    /\ p.file # NilFile
    /\ p.file.Unresolved # <<>>
    /\ Len(p.file.Unresolved) < Len(p.unresolved)
    /\ \E i \in 1..Len(p.idents) :
          /\ p.idents[i].Obj.Kind = "Fun"
          /\ \A k \in 1..Len(p.file.Unresolved) : p.file.Unresolved[k] # i
          /\ p.idents[i].NamePos < Pos(p.idents[i].Obj)

\* The scopes from s outward, innermost first.
RECURSIVE ScopeChain(_, _)
ScopeChain(q, s) ==
    IF s = 0 THEN <<>> ELSE <<s>> \o ScopeChain(q, q.scopes[s].Outer)

\* C20: tryResolve(x, collect) on a non-blank identifier whose object is
\* nil links it to the object that the innermost scope holding the name, on
\* the chain from topScope outward, holds for it, and leaves the unresolved
\* list alone; when no scope of the chain holds the name, with collect set
\* the identifier gets the unresolved sentinel and is appended once to the
\* unresolved list, and with collect unset its object stays nil and the
\* list is unchanged. On a non-identifier and on the blank identifier
\* nothing changes. No scope and no other identifier changes in any case.
C20_TryResolve ==
    [][(op' # op /\ op'.name = "tryResolve") =>
        LET i == op'.x.X
            name == p'.idents[i].Name
            chain == ScopeChain(p, p.topScope)
            Holding == {k \in 1..Len(chain) :
                           p.scopes[chain[k]].Objects[name] # nil}
            innermost == chain[CHOOSE k \in Holding : \A j \in Holding : k <= j]
        IN  /\ p'.abort = "none"
            /\ p'.scopes = p.scopes
            /\ p'.errors = p.errors
            /\ \A j \in 1..Len(p.idents) : p'.idents[j] = p.idents[j]
            /\ IF op'.x.kind # "Ident" \/ name = "_"
               THEN /\ p'.idents[i].Obj = nil
                    /\ p'.unresolved = p.unresolved
               ELSE IF Holding # {}
               THEN /\ p'.idents[i].Obj = p.scopes[innermost].Objects[name]
                    /\ p'.unresolved = p.unresolved
               ELSE IF op'.collect
               THEN /\ p'.idents[i].Obj = unresolved
                    /\ p'.unresolved = Append(p.unresolved, i)
               ELSE /\ p'.idents[i].Obj = nil
                    /\ p'.unresolved = p.unresolved
    ]_vars

\* tryResolve has linked an identifier to the object of the inner of two
\* scopes that hold its name.
C20_Witness ==
    /\ op.name = "tryResolve"
    /\ op.x.kind = "Ident"
    /\ Len(ScopeChain(p, p.topScope)) = 2
    /\ \A k \in 1..2 :
          p.scopes[ScopeChain(p, p.topScope)[k]].Objects[p.idents[op.x.X].Name] # nil
    /\ p.idents[op.x.X].Obj = p.scopes[p.topScope].Objects[p.idents[op.x.X].Name]
    /\ p.idents[op.x.X].Obj # p.scopes[p.pkgScope].Objects[p.idents[op.x.X].Name]

----------------------------------------------------------------------------
(* SpecComments: next() on sources with comments                           *)

MaxToks == 3        \* tokens of a source with comments

\* A token of such a source: its kind and the number of newlines between
\* the token before it and itself; on the same line a blank separates them.
TokShapes == [tok : {"ADD", "COMMENT"}, gap : 0..2]

\* The text of a token
TextOf(t) == IF t = "COMMENT" THEN "//" ELSE "+"
TextLen(t) == IF t = "COMMENT" THEN 2 ELSE 1

\* What the scanner yields for the shapes from the k-th on, the k-th token
\* standing at offset pos or, after newlines, at the start of its line; and
\* the line starts met on the way.
RECURSIVE Layout(_, _, _)
Layout(shapes, k, pos) ==
    IF k > Len(shapes) THEN [toks |-> <<>>, lines |-> <<>>]
    ELSE LET at == pos + shapes[k].gap
             rest == Layout(shapes, k + 1, at + TextLen(shapes[k].tok) + 1)
         IN  [toks |-> <<[tok |-> shapes[k].tok, lit |-> TextOf(shapes[k].tok),
                          line |-> at]>> \o rest.toks,
              lines |-> [j \in 1..shapes[k].gap |-> pos + j] \o rest.lines]

\* Before init calls next(), the token is ILLEGAL and the position NoPos.
CommentInit ==
    /\ AllIdle
    /\ \E n \in 1..MaxToks : \E shapes \in [1..n -> TokShapes] :
          p = [P0 EXCEPT
                 !.toks = <<[tok |-> "ILLEGAL", lit |-> "", line |-> NoPos]>>
                          \o Layout(shapes, 1, 1).toks,
                 !.lines = <<1>> \o Layout(shapes, 1, 1).lines]
    /\ op = NoOp
    /\ hist = <<>>

\* A call of next(), by init or by a production.
CommentNext ==
    /\ tok(p) # "EOF"
    /\ p' = next(p)
    /\ UNCHANGED <<op, hist, OtherVars>>

SpecComments == CommentInit /\ [][CommentNext]_vars

\* The comments of the groups, in the order of the list
RECURSIVE Flatten(_)
Flatten(groups) ==
    IF groups = <<>> THEN <<>> ELSE Head(groups) \o Flatten(Tail(groups))

\* The comment tokens the scanner has yielded before the current token
ScannedComments(q) ==
    LET cs == SelectSeq(SubSeq(q.toks, 1, q.at - 1),
                        LAMBDA t : t.tok = "COMMENT")
    IN  [k \in 1..Len(cs) |-> Comment(cs[k].line, cs[k].lit)]

\* ast.Comment.End
CommentEnd(c) == c.Slash + Len(c.Text)

\* C17: after any sequence of next() calls every group of the comments list
\* is non-empty, each group starts at or after the end of the group before
\* it (and after its start), and the comments of all groups, in order, are
\* the comment tokens scanned so far, each once.
C17_CommentsSorted ==
    /\ \A g \in 1..Len(p.comments) : p.comments[g] # <<>>
    /\ \A g \in 1..(Len(p.comments) - 1) :
          /\ p.comments[g + 1][1].Slash >=
                 CommentEnd(p.comments[g][Len(p.comments[g])])
          /\ p.comments[g + 1][1].Slash > p.comments[g][1].Slash
    /\ Flatten(p.comments) = ScannedComments(p)
    /\ \A i, j \in 1..Len(Flatten(p.comments)) :
          i < j => Flatten(p.comments)[i].Slash < Flatten(p.comments)[j].Slash

\* next() has made two groups, one of two comments, and reached the end of
\* the source.
C17_Witness ==
    /\ Len(p.comments) = 2
    /\ \E g \in 1..2 : Len(p.comments[g]) = 2
    /\ tok(p) = "EOF"

----------------------------------------------------------------------------
(* SpecParse: parseFile on sources of a package clause and function       *)
(* declarations with short-form bodies, well formed or not                *)

T(t) == [tok |-> t, lit |-> ""]
Id(name) == [tok |-> "IDENT", lit |-> name]
NL == [tok |-> "SEMICOLON", lit |-> "\n"]

\* The lines of a package clause: well formed, with the blank name, without
\* the keyword, without the name, without the newline.
PackageClauses ==
    {<<T("PACKAGE"), Id("a"), NL>>,
     <<T("PACKAGE"), Id("_"), NL>>,
     <<Id("a"), NL>>,
     <<T("PACKAGE"), NL>>,
     <<T("PACKAGE"), Id("a")>>}

Sig == <<T("LPAREN"), T("RPAREN")>>
ShortBody == <<T("COLON"), NL>>

\* The lines of a declaration: func f(): / func a() T: / func T.m(): /
\* func *T.m(): and the malformed func *T m(): / func a: / func a() /
\* func (): / a
DeclLines ==
    {<<T("FUNC"), Id(f)>> \o Sig \o ShortBody : f \in {"a", "init", "_", "T"}}
    \cup {<<T("FUNC"), Id("a")>> \o Sig \o <<Id("T")>> \o ShortBody}
    \cup {<<T("FUNC"), Id("T"), T("PERIOD"), Id(m)>> \o Sig \o ShortBody :
             m \in {"a", "init"}}
    \cup {<<T("FUNC"), T("MUL"), Id("T"), T("PERIOD"), Id(m)>> \o Sig \o ShortBody :
             m \in {"a", "init"}}
    \cup {<<T("FUNC"), T("MUL"), Id("T"), Id("a")>> \o Sig \o ShortBody,
          <<T("FUNC"), Id("a")>> \o ShortBody,
          <<T("FUNC"), Id("a")>> \o Sig \o <<NL>>,
          <<T("FUNC")>> \o Sig \o ShortBody,
          <<Id("a"), NL>>}

RECURSIVE Concat(_)
Concat(ss) == IF ss = <<>> THEN <<>> ELSE Head(ss) \o Concat(Tail(ss))

\* The scanner's positions: the line of each token.
WithLines(ts) ==
    [i \in 1..Len(ts) |->
        [tok |-> ts[i].tok, lit |-> ts[i].lit,
         line |-> 1 + Cardinality({j \in 1..(i - 1) : ts[j].tok = "SEMICOLON"})]]

Sources ==
    {WithLines(pc \o Concat(ds)) :
        pc \in PackageClauses,
        ds \in UNION {[1..n -> DeclLines] : n \in 0..MaxDecls}}

ParseModes ==
    {{}, {"DeclarationErrors"}, {"DeclarationErrors", "AllErrors"},
     {"PackageClauseOnly"}, {"ImportsOnly"}}

\* After parser.init: the first token is current.
ParseInit ==
    /\ AllIdle
    /\ \E src \in Sources, m \in ParseModes :
          p = [P0 EXCEPT !.mode = m, !.toks = src]
    /\ op = NoOp

\* parseFile up to the declarations
ParsePackage ==
    /\ Parsing
    /\ p.pkgScope = 0
    /\ p' = parseFileStart([p EXCEPT !.reps = <<>>])
    /\ op' = [name |-> "package"]
    /\ UNCHANGED IdleVars

SkipDecls(q) == "PackageClauseOnly" \in q.mode \/ "ImportsOnly" \in q.mode

\* One turn of the loop of parseFile over the declarations
ParseDecl ==
    /\ Parsing
    /\ p.pkgScope # 0
    /\ ~SkipDecls(p)
    /\ tok(p) # "EOF"
    /\ LET appended(r) == IF r.q.abort # "none" THEN r.q
                          ELSE [r.q EXCEPT !.decls = Append(@, r.decl)]
       IN  p' = appended(parseDecl([p EXCEPT !.reps = <<>>]))
    /\ op' = [name |-> "parseDecl"]
    /\ UNCHANGED IdleVars

\* parseFile after the declarations
ParseFileEnd ==
    /\ Parsing
    /\ p.pkgScope # 0
    /\ SkipDecls(p) \/ tok(p) = "EOF"
    /\ p' = parseFileEnd([p EXCEPT !.reps = <<>>])
    /\ op' = [name |-> "parseFile"]
    /\ UNCHANGED IdleVars

ParseNext == ParsePackage \/ ParseDecl \/ ParseFileEnd

SpecParse == ParseInit /\ [][ParseNext]_vars

\* The sources stay within the productions modelled.
ParseModelled == p.abort # "unmodelled"

\* for self.tok != token.EOF { decls = append(decls, self.parseDecl(syncDecl)) }
RECURSIVE parseDecls(_)
parseDecls(q) ==
    LET appended(r) == IF r.q.abort # "none" THEN r.q
                       ELSE [r.q EXCEPT !.decls = Append(@, r.decl)]
    IN  IF q.abort # "none" \/ tok(q) = "EOF" THEN q
        ELSE parseDecls(appended(parseDecl(q)))

\* parseFile from the declarations on
parseFileRest(s) ==
    IF s.abort # "none" \/ s.done THEN s
    ELSE IF SkipDecls(s) THEN parseFileEnd(s)
    ELSE parseFileEnd(parseDecls(s))

\* parser.parseFile
parseFile(q) == parseFileRest(parseFileStart(q))

\* C3 as claimed: no syntax error aborts the parse; the only non-local
\* transfer out of it is the bailout of the error cap.
C3_OnlyBailoutLeavesTheParse == p.abort \in {"none", "bailout"}

\* The tokens of one line of the source.
LineToks(l) == SelectSeq(p.toks, LAMBDA t : t.line = l)

IsStarMethod(ts) == Len(ts) >= 5 /\ ts[2].tok = "MUL" /\ ts[4].tok = "PERIOD"
IsPlainMethod(ts) == Len(ts) >= 4 /\ ts[2].tok = "IDENT" /\ ts[3].tok = "PERIOD"

\* C10: every FuncDecl parsed from func T.m(...) or func *T.m(...) has a
\* receiver list of one field, whose one name is "self" and whose type is T
\* resp. *T; "self" is a variable of the function scope; the method m gets
\* no object and the package scope holds none for it. Every FuncDecl parsed
\* from func f(...) has no receiver; f is declared as a function in the
\* package scope (the scope holds f, unless f is blank, and holds this
\* declaration's object unless an earlier function took the name), except
\* that init is not declared.
C10_MethodsAndFunctions ==
    \A k \in 1..Len(p.decls) :
        LET d == p.decls[k]
            ts == LineToks(d.Func)
            pkg == p.scopes[p.pkgScope]
            name == p.idents[d.Name]
        IN  IF IsStarMethod(ts) \/ IsPlainMethod(ts)
            THEN /\ Len(d.Recv) = 1
                 /\ Len(d.Recv[1].Names) = 1
                 /\ p.idents[d.Recv[1].Names[1]].Name = "self"
                 /\ d.Recv[1].Type.kind = IF IsStarMethod(ts) THEN "Star" ELSE "Ident"
                 /\ p.idents[d.Recv[1].Type.X].Name =
                        IF IsStarMethod(ts) THEN ts[3].lit ELSE ts[2].lit
                 /\ p.scopes[d.scope].Outer = p.pkgScope
                 /\ p.scopes[d.scope].Objects["self"] # nil
                 /\ p.scopes[d.scope].Objects["self"].Kind = "Var"
                 /\ p.scopes[d.scope].Objects["self"] =
                        p.idents[d.Recv[1].Names[1]].Obj
                 /\ name.Name = IF IsStarMethod(ts) THEN ts[5].lit ELSE ts[4].lit
                 /\ name.Obj = nil
                 /\ \A n \in Names :
                       pkg.Objects[n] # nil =>
                           pkg.Objects[n].Decl.names[1].NamePos # d.Func
            ELSE /\ d.Recv = <<>>
                 /\ name.Name = ts[2].lit
                 /\ IF name.Name = "init"
                    THEN name.Obj = nil /\ pkg.Objects["init"] = nil
                    ELSE /\ name.Obj.Kind = "Fun"
                         /\ name.Obj.Decl.kind = "FuncDecl"
                         /\ name.Obj.Decl.names[1].NamePos = d.Func
                         /\ name.Name # "_" =>
                               /\ pkg.Objects[name.Name] # nil
                               /\ \/ pkg.Objects[name.Name] = name.Obj
                                  \/ \E j \in 1..(k - 1) :
                                        /\ p.decls[j].Recv = <<>>
                                        /\ p.idents[p.decls[j].Name].Name = name.Name
                         /\ name.Name = "_" => pkg.Objects["_"] = nil

\* parseFile returned a File with a method of *T and a function that the
\* package scope holds.
C10_Witness ==
    /\ p.file # NilFile
    /\ \E k, j \in 1..Len(p.decls) :
          /\ IsStarMethod(LineToks(p.decls[k].Func))
          /\ p.decls[j].Recv = <<>>
          /\ p.scopes[p.pkgScope].Objects[p.idents[p.decls[j].Name].Name]
                = p.idents[p.decls[j].Name].Obj

----------------------------------------------------------------------------
(* SpecDriver: igoWalkPath on a directory, filepath.Walk calling           *)
(* igoVisitFile for each path                                              *)

MaxPaths == 2       \* paths a walk visits

\* package a / func a(): ; package _ ; and a source without package clause
DriverSources ==
    {WithLines(<<T("PACKAGE"), Id("a"), NL, T("FUNC"), Id("a")>> \o Sig \o ShortBody),
     WithLines(<<T("PACKAGE"), Id("_"), NL>>),
     WithLines(<<Id("a"), NL>>)}

\* What Walk hands to the callback: an error of its own, a path that is no
\* .igo file, or an .igo file with its source and the fate of the system
\* calls on it (open and read, write).
WalkErr == [kind |-> "walkerr"]
OtherFile == [kind |-> "other"]
IgoFiles == [kind : {"igo"}, src : DriverSources, io : {"ok", "openfails", "writefails"}]
PathShapes == {WalkErr, OtherFile} \cup IgoFiles

\* igoInit: the mode of every parse
igoParserMode == {"AllErrors"}

\* igoParse and parser.ParseFile: the parser's state when parseFile is left.
\* No error that ParseFile returns holds "expected 'package'" (errorExpected
\* panics), so the second parse of igoParse is never made.
igoParse(src) == parseFile([P0 EXCEPT !.mode = igoParserMode, !.toks = src])

\* igoProcessFile: "panic" when the parse is left by a panic that is no
\* bailout, "error" when an error is returned, and "ok".
igoProcessFile(f) ==
    LET parsed(q) ==
            IF q.abort = "panic" THEN "panic"
            ELSE IF Len(q.errors) > 0 THEN "error"
            ELSE IF f.io = "writefails" THEN "error"
            ELSE "ok"
    IN  IF f.io = "openfails" THEN "error" ELSE parsed(igoParse(f.src))

\* The driver: the paths of the walk, the one visited next, exitCode,
\* whether the process runs, has finished the walk, or died of a panic, and
\* for each .igo file what igoProcessFile does when called on it.
\* hist is what happened: igoProcessFile was called on a path, igoReport
\* was called for a path.
DriverInit ==
    /\ FsIdle /\ InitIdle
    /\ p = P0
    /\ \E n \in 1..MaxPaths : \E paths \in [1..n -> PathShapes] :
          op = [name |-> "walk", paths |-> paths, at |-> 1, exitCode |-> 0,
                status |-> "running",
                fate |-> [k \in 1..n |->
                            IF paths[k].kind = "igo"
                            THEN igoProcessFile(paths[k]) ELSE "none"]]
    /\ hist = <<>>

\* igoReport
igoReport(d) == [d EXCEPT !.exitCode = 2]

\* igoVisitFile(path, f, err) for the next path of the walk
igoVisitFile ==
    /\ op.status = "running"
    /\ op.at <= Len(op.paths)
    /\ LET f == op.paths[op.at]
           called == <<[ev |-> "processed", path |-> op.at]>>
           reported == <<[ev |-> "reported", path |-> op.at]>>
           returned(d) == [d EXCEPT !.at = @ + 1]
       IN  IF f.kind = "walkerr"
           THEN /\ op' = returned(igoReport(op))
                /\ hist' = hist \o reported
           ELSE IF f.kind = "other"
           THEN /\ op' = returned(op)
                /\ hist' = hist
           ELSE IF op.fate[op.at] = "panic"
           THEN /\ op' = [op EXCEPT !.status = "crashed"]
                /\ hist' = hist \o called
           ELSE IF op.fate[op.at] = "error"
           THEN /\ op' = returned(igoReport(op))
                /\ hist' = hist \o called \o reported
           ELSE /\ op' = returned(op)
                /\ hist' = hist \o called
    /\ UNCHANGED <<p, OtherVars>>

\* filepath.Walk returns, and the process exits with exitCode.
WalkReturns ==
    /\ op.status = "running"
    /\ op.at > Len(op.paths)
    /\ op' = [op EXCEPT !.status = "done"]
    /\ UNCHANGED <<p, hist, OtherVars>>

DriverNext == igoVisitFile \/ WalkReturns

\* The process runs while it can: nothing suspends the walk.
SpecDriver == DriverInit /\ [][DriverNext]_vars /\ WF_vars(DriverNext)

Happened(ev, k) == \E i \in 1..Len(hist) : hist[i] = [ev |-> ev, path |-> k]

\* C18: every walk comes to its end with igoProcessFile called on each of
\* its .igo files, with an error reported for each walk error and each file
\* whose processing failed, and with exitCode 2 exactly when some error was
\* reported; and an exitCode of 2 is never reset.
C18_WalkReportsAndGoesOn ==
    /\ <>(op.status = "done"
          /\ (\A k \in 1..Len(op.paths) :
                 /\ op.paths[k].kind = "igo" => Happened("processed", k)
                 /\ Happened("reported", k) <=>
                        \/ op.paths[k].kind = "walkerr"
                        \/ /\ op.paths[k].kind = "igo"
                           /\ op.fate[k] # "ok")
          /\ (op.exitCode = 2 <=>
                 \E k \in 1..Len(op.paths) : Happened("reported", k)))
    /\ [][op.exitCode = 2 => op'.exitCode = 2]_vars

----------------------------------------------------------------------------
(* SpecCall: parseStmt on a call statement, with and without the do sugar *)

MaxArgs == 2        \* arguments of a call between the parentheses

\* The positions of a source on one or more lines: the offset of each
\* token is its index.
WithOffsets(ts) ==
    [i \in 1..Len(ts) |-> [tok |-> ts[i].tok, lit |-> ts[i].lit, line |-> i]]

\* The line table of such a source: a line starts after each newline.
RECURSIVE LineStarts(_, _)
LineStarts(ts, i) ==
    IF i > Len(ts) THEN <<>>
    ELSE IF ts[i] = NL THEN <<i + 1>> \o LineStarts(ts, i + 1)
    ELSE LineStarts(ts, i + 1)

\* The parser at the first token of a source, the package scope open
ParserAt(ts) ==
    [P0 EXCEPT !.toks = WithOffsets(ts), !.lines = <<1>> \o LineStarts(ts, 1),
               !.scopes = <<NewScope(0)>>, !.pkgScope = 1, !.topScope = 1]

\* An expression without its positions, the identifiers by name
RECURSIVE Shape(_, _)
RECURSIVE ShapeList(_, _)
Shape(q, x) ==
    CASE x.kind = "Ident" -> <<"Ident", q.idents[x.X].Name>>
      [] x.kind = "ParenExpr" -> <<"ParenExpr", Shape(q, x.X)>>
      [] x.kind = "UnaryExpr" -> <<"UnaryExpr", x.Op, Shape(q, x.X)>>
      [] x.kind = "BinaryExpr" ->
            <<"BinaryExpr", Shape(q, x.X), x.Op, Shape(q, x.Y)>>
      [] x.kind = "CallExpr" ->
            <<"CallExpr", Shape(q, x.Fun), ShapeList(q, x.Args)>>
      [] x.kind = "FuncLit" -> <<"FuncLit", ShapeList(q, x.Body.List)>>
      [] x.kind = "ExprStmt" -> <<"ExprStmt", Shape(q, x.X)>>
      [] x.kind = "ReturnStmt" -> <<"ReturnStmt", ShapeList(q, x.Results)>>
      [] OTHER -> <<x.kind>>
ShapeList(q, list) ==
    IF list = <<>> THEN <<>>
    ELSE <<Shape(q, Head(list))>> \o ShapeList(q, Tail(list))

\* The arguments: a, b, a + b, each with the shape it is to parse to
ArgForms ==
    {[toks |-> <<Id(n)>>, shape |-> <<"Ident", n>>] : n \in {"a", "b"}}
    \cup {[toks |-> <<Id("a"), T("ADD"), Id("b")>>,
           shape |-> <<"BinaryExpr", <<"Ident", "a">>, "ADD", <<"Ident", "b">>>>]}

\* What follows the closing parenthesis: nothing, or do, a signature and a
\* body: an empty short body, a short return, a short expression
\* statement, an indented body of two statements.
DoForms ==
    {[toks |-> <<>>, do |-> FALSE, small |-> FALSE, body |-> <<>>],
     [toks |-> <<T("DO")>> \o Sig \o <<T("COLON"), NL>>,
      do |-> TRUE, small |-> TRUE, body |-> <<>>],
     [toks |-> <<T("DO")>> \o Sig \o <<T("COLON"), T("RETURN"), NL>>,
      do |-> TRUE, small |-> TRUE, body |-> <<<<"ReturnStmt", <<>>>>>>],
     [toks |-> <<T("DO")>> \o Sig \o <<T("COLON"), Id("a")>>,
      do |-> TRUE, small |-> TRUE, body |-> <<<<"ExprStmt", <<"Ident", "a">>>>>>],
     [toks |-> <<T("DO")>> \o Sig
               \o <<NL, T("INDENT"), Id("a"), NL, T("RETURN"), T("DEDENT")>>,
      do |-> TRUE, small |-> FALSE,
      body |-> <<<<"ExprStmt", <<"Ident", "a">>>>, <<"ReturnStmt", <<>>>>>>]}

\* The arguments between the parentheses, a comma after each but the
\* last, and after the last as well if trailing
RECURSIVE ArgToks(_, _)
ArgToks(args, trailing) ==
    IF args = <<>> THEN <<>>
    ELSE Head(args).toks
         \o (IF Len(args) > 1 \/ trailing THEN <<T("COMMA")>> ELSE <<>>)
         \o ArgToks(Tail(args), trailing)

\* T(args) and what follows, to the end of the line
CallToks(args, trailing, form) ==
    <<Id("T"), T("LPAREN")>> \o ArgToks(args, trailing) \o <<T("RPAREN")>>
    \o form.toks \o <<NL>>

CallInit ==
    /\ AllIdle
    /\ \E n \in 0..MaxArgs :
          \E args \in [1..n -> ArgForms], trailing \in BOOLEAN, form \in DoForms :
             /\ trailing => n > 0
             /\ p = ParserAt(CallToks(args, trailing, form))
             /\ op = [name |-> "source", args |-> args, form |-> form,
                      do |-> Len(ArgToks(args, trailing)) + 4]

\* parseStmt on the call statement
ParseCall ==
    /\ op.name = "source"
    /\ p' = Parse("parseStmt", <<p>>).q
    /\ op' = [op EXCEPT !.name = "parseStmt"]
    /\ hist' = <<Parse("parseStmt", <<p>>).x>>
    /\ UNCHANGED OtherVars

SpecCall == CallInit /\ [][ParseCall]_vars

\* C11: the arguments of the call parsed are the arguments between the
\* parentheses, in order, followed by exactly one function literal when do,
\* a signature and a body follow the closing parenthesis - the literal
\* standing at the do and holding that body - and by nothing otherwise.
C11_DoSugarArguments ==
    op.name = "parseStmt" =>
        /\ p.abort = "none"
        /\ hist[1].kind = "ExprStmt"
        /\ hist[1].X.kind = "CallExpr"
        /\ Len(hist[1].X.Args) = Len(op.args) + (IF op.form.do THEN 1 ELSE 0)
        /\ \A i \in 1..Len(op.args) :
              Shape(p, hist[1].X.Args[i]) = op.args[i].shape
        /\ op.form.do =>
              /\ hist[1].X.Args[Len(op.args) + 1].kind = "FuncLit"
              /\ hist[1].X.Args[Len(op.args) + 1].Func = op.do
              /\ hist[1].X.Args[Len(op.args) + 1].Body.Small = op.form.small
              /\ ShapeList(p, hist[1].X.Args[Len(op.args) + 1].Body.List)
                    = op.form.body

\* A call of two arguments with an indented do body has been parsed.
C11_Witness ==
    /\ op.name = "parseStmt"
    /\ p.abort = "none"
    /\ Len(op.args) = 2
    /\ op.form.do /\ ~op.form.small
    /\ Len(hist[1].X.Args) = 3
    /\ hist[1].X.Args[3].kind = "FuncLit"
    /\ Len(hist[1].X.Args[3].Body.List) = 2

----------------------------------------------------------------------------
(* The printer, by the tokens it prints: blanks are left out, and so are   *)
(* the depth and the cutoff that decide nothing but blanks. A node without *)
(* positions is printed without line breaks inside an expression.          *)

\* The printer: the identifiers of the tree it prints, rcvName, "" for
\* nil, and commentNewline, which the printing of comments sets.
Printer(idents, rcvName) ==
    [idents |-> idents, rcvName |-> rcvName, commentNewline |-> FALSE]

RECURSIVE expr1(_, _, _)

\* printer.expr0, printer.expr
expr0(s, x) == expr1(s, x, LowestPrec)
expr(s, x) == expr1(s, x, LowestPrec)

\* A binaryExpr that requires the parent's precedence of the right
\* operand, as of the left
binaryExpr_SamePrecRight(s, x, prec1) ==
    IF Precedence(x.Op) < prec1
    THEN <<T("LPAREN")>> \o expr0(s, x) \o <<T("RPAREN")>>
    ELSE expr1(s, x.X, Precedence(x.Op)) \o <<T(x.Op)>>
         \o expr1(s, x.Y, Precedence(x.Op))

\* printer.binaryExpr
binaryExpr(s, x, prec1) ==
    IF Precedence(x.Op) < prec1
    THEN <<T("LPAREN")>> \o expr0(s, x) \o <<T("RPAREN")>>
    ELSE expr1(s, x.X, Precedence(x.Op)) \o <<T(x.Op)>>
         \o expr1(s, x.Y, Precedence(x.Op) + 1)

\* printer.exprList, on one line: a comma between the expressions
RECURSIVE exprList(_, _)
exprList(s, list) ==
    IF list = <<>> THEN <<>>
    ELSE IF Len(list) = 1 THEN expr0(s, list[1])
    ELSE expr0(s, list[1]) \o <<T("COMMA")>> \o exprList(s, Tail(list))

\* printer.identList: the identifiers as an expression list
identList(s, names) ==
    exprList(s, [i \in 1..Len(names) |-> Expr("Ident", names[i])])

\* The loop of printer.parameters: a comma before each field but the
\* first, the names of the field, its type
RECURSIVE parameterFields(_, _, _)
parameterFields(s, list, i) ==
    IF i > Len(list) THEN <<>>
    ELSE (IF i > 1 THEN <<T("COMMA")>> ELSE <<>>)
         \o identList(s, list[i].Names)
         \o expr(s, list[i].Type)
         \o parameterFields(s, list, i + 1)

\* printer.parameters, on one line
parameters(s, fields) ==
    <<T("LPAREN")>> \o parameterFields(s, fields, 1) \o <<T("RPAREN")>>

\* printer.signature, of a function without results
signature(s, params) ==
    IF params = <<>> THEN <<T("LPAREN"), T("RPAREN")>>
    ELSE parameters(s, params)

RECURSIVE block(_, _)

\* printer.controlClause without init and post: the expression, if any
controlClause(s, x) == IF x.kind = "nil" THEN <<>> ELSE expr(s, x)

\* printer.stmt
stmt(s, st) ==
    CASE st.kind = "ExprStmt" -> expr0(s, st.X)
      [] st.kind = "ReturnStmt" -> <<T("RETURN")>> \o exprList(s, st.Results)
      [] st.kind = "EmptyStmt" -> <<>>
      [] st.kind = "IncDecStmt" -> expr0(s, st.X) \o <<T(st.Tok)>>
      [] st.kind = "BranchStmt" ->
            <<T(st.Tok)>>
            \o (IF st.Label.kind # "nil" THEN expr(s, st.Label) ELSE <<>>)
      [] st.kind = "IfStmt" ->
            <<T("IF")>> \o controlClause(s, st.Cond) \o block(s, st.Body)
      [] st.kind = "ForStmt" ->
            <<T("FOR")>> \o controlClause(s, st.Cond) \o block(s, st.Body)

\* printer.stmtList: each statement but the empty ones on a line of its
\* own
RECURSIVE stmtList(_, _)
stmtList(s, list) ==
    IF list = <<>> THEN <<>>
    ELSE IF Head(list).kind = "EmptyStmt" THEN stmtList(s, Tail(list))
    ELSE stmt(s, Head(list))
         \o (IF \E k \in 2..Len(list) : list[k].kind # "EmptyStmt"
             THEN <<NL>> ELSE <<>>)
         \o stmtList(s, Tail(list))

\* printer.block: the statements indented on the lines that follow, as
\* the scanner lays them out; of no statements, nothing is printed but
\* the line break.
block(s, b) ==
    IF b.List = <<>> THEN <<NL>>
    ELSE <<NL, T("INDENT")>> \o stmtList(s, b.List) \o <<T("DEDENT")>>

\* An adjBlock that puts every body of one statement on the header's line
adjBlock_AnyStmt(s, b) ==
    IF b.kind = "nil" THEN <<>>
    ELSE IF Len(b.List) = 0 THEN <<T("COLON")>>
    ELSE IF Len(b.List) = 1 THEN <<T("COLON")>> \o stmt(s, b.List[1])
    ELSE block(s, b)

\* printer.adjBlock
adjBlock(s, b) ==
    IF b.kind = "nil" THEN <<>>
    ELSE IF Len(b.List) = 0 THEN <<T("COLON")>>
    ELSE IF /\ Len(b.List) = 1
            /\ ~s.commentNewline
            /\ b.List[1].kind \in {"ReturnStmt", "BranchStmt", "EmptyStmt",
                                    "IncDecStmt"}
    THEN <<T("COLON")>> \o stmt(s, b.List[1])
    ELSE block(s, b)

\* printer.expr1, case *ast.CallExpr without ellipsis
callExpr1(s, x) ==
    IF x.Args # <<>> /\ x.Args[Len(x.Args)].kind = "FuncLit"
    THEN expr1(s, x.Fun, HighestPrec) \o <<T("LPAREN")>>
         \o exprList(s, SubSeq(x.Args, 1, Len(x.Args) - 1))
         \o <<T("RPAREN"), T("DO")>>
         \o signature(s, x.Args[Len(x.Args)].Params)
         \o adjBlock(s, x.Args[Len(x.Args)].Body)
    ELSE expr1(s, x.Fun, HighestPrec) \o <<T("LPAREN")>>
         \o exprList(s, x.Args) \o <<T("RPAREN")>>

\* printer.expr1, case *ast.Ident: the receiver's name is printed as self
identExpr(s, x) ==
    IF s.rcvName # "" /\ s.rcvName = s.idents[x.X].Name THEN <<Id("self")>>
    ELSE <<Id(s.idents[x.X].Name)>>

\* printer.expr1
expr1(s, x, prec1) ==
    CASE x.kind = "Ident" -> identExpr(s, x)
      [] x.kind = "BinaryExpr" -> binaryExpr(s, x, prec1)
      [] x.kind = "UnaryExpr" ->
            IF UnaryPrec < prec1
            THEN <<T("LPAREN")>> \o expr(s, x) \o <<T("RPAREN")>>
            ELSE <<T(x.Op)>> \o expr1(s, x.X, UnaryPrec)
      [] x.kind = "ParenExpr" ->
            IF x.X.kind = "ParenExpr" THEN expr0(s, x.X)
            ELSE <<T("LPAREN")>> \o expr0(s, x.X) \o <<T("RPAREN")>>
      [] x.kind = "CallExpr" -> callExpr1(s, x)
      [] x.kind = "FuncLit" ->
            <<T("FUNC")>> \o signature(s, x.Params) \o adjBlock(s, x.Body)

----------------------------------------------------------------------------
(* Printing a statement and parsing what was printed                       *)

\* The identifiers of the trees printed
Arena == <<[Name |-> "a"], [Name |-> "b"], [Name |-> "T"], [Name |-> "_"]>>
IdentA == Expr("Ident", 1)
IdentB == Expr("Ident", 2)
IdentT == Expr("Ident", 3)
IdentBlank == Expr("Ident", 4)

\* printer.stmt on the statement, no method being printed
PrintStmt ==
    /\ op.name = "ast"
    /\ hist' = stmt(Printer(Arena, ""), op.x)
    /\ op' = [op EXCEPT !.name = "printed"]
    /\ UNCHANGED <<p, OtherVars>>

\* parseStmt on what was printed: the line ends after it.
ReparseStmt ==
    /\ op.name = "printed"
    /\ \E r \in {Parse("parseStmt", <<ParserAt(hist \o <<NL>>)>>)} :
          /\ p' = r.q
          /\ op' = [name |-> "parsed", x |-> op.x, y |-> r.x]
    /\ UNCHANGED <<hist, OtherVars>>

RoundTripNext == PrintStmt \/ ReparseStmt

\* A shape without its parentheses
RECURSIVE StripParens(_)
StripParens(sh) ==
    CASE sh[1] = "ParenExpr" -> StripParens(sh[2])
      [] sh[1] = "BinaryExpr" ->
            <<"BinaryExpr", StripParens(sh[2]), sh[3], StripParens(sh[4])>>
      [] sh[1] = "ExprStmt" -> <<"ExprStmt", StripParens(sh[2])>>
      [] OTHER -> sh

----------------------------------------------------------------------------
(* SpecBinary: binary expression trees printed and parsed again            *)

MaxOps == 3         \* binary operators of a tree

\* An operator of each precedence, 1 to 5
TreeOps == {"LOR", "LAND", "EQL", "ADD", "MUL"}

\* The trees of n operators over one identifier, built without the parser:
\* no ParenExpr, no positions
RECURSIVE BinaryTrees(_)
BinaryTrees(n) ==
    IF n = 0 THEN {IdentA}
    ELSE UNION {{BinaryExpr(l, NoPos, o, r) :
                    l \in BinaryTrees(k), r \in BinaryTrees(n - 1 - k), o \in TreeOps} :
                k \in 0..(n - 1)}

BinaryInit ==
    /\ AllIdle
    /\ p = P0
    /\ \E n \in 1..MaxOps : \E x \in BinaryTrees(n) :
          op = [name |-> "ast", x |-> ExprStmt(x)]

SpecBinary == BinaryInit /\ [][RoundTripNext]_vars

\* The shape of a tree with a ParenExpr around each binary operand whose
\* precedence is below the one required: prec1 is required of x.
RECURSIVE Parenthesised(_, _)
Parenthesised(x, prec1) ==
    IF x.kind # "BinaryExpr" THEN Shape(Printer(Arena, ""), x)
    ELSE IF Precedence(x.Op) < prec1
    THEN <<"ParenExpr", Parenthesised(x, LowestPrec)>>
    ELSE <<"BinaryExpr", Parenthesised(x.X, Precedence(x.Op)), x.Op,
           Parenthesised(x.Y, Precedence(x.Op) + 1)>>

----------------------------------------------------------------------------
(* SpecDo: calls whose last argument is a function literal, printed and   *)
(* parsed again, as a statement, as an operand and as an argument         *)

\* The bodies of the literal: empty, a return, an expression statement
DoBodies ==
    {BlockStmt(NoPos, <<>>, NoPos, TRUE),
     BlockStmt(NoPos, <<ReturnStmt(NoPos, <<>>)>>, NoPos, TRUE),
     BlockStmt(NoPos, <<ExprStmt(IdentA)>>, NoPos, FALSE)}

\* T(args, func() body)
DoCall(args, body) ==
    CallExpr(IdentT, NoPos, Append(args, FuncLit(NoPos, <<>>, 0, body)), NoPos,
             NoPos)

\* The call as the statement, as the left and as the right operand of a
\* binary expression, as the only and as the first of two arguments. Between
\* parentheses the scanner lays out no lines: there the literal has a body
\* that is printed on the line.
DoContexts == {"statement", "left", "right", "argument", "first"}
InContext(c, call) ==
    CASE c = "statement" -> ExprStmt(call)
      [] c = "left" -> ExprStmt(BinaryExpr(call, NoPos, "ADD", IdentB))
      [] c = "right" -> ExprStmt(BinaryExpr(IdentB, NoPos, "ADD", call))
      [] c = "argument" ->
            ExprStmt(CallExpr(IdentT, NoPos, <<call>>, NoPos, NoPos))
      [] c = "first" ->
            ExprStmt(CallExpr(IdentT, NoPos, <<call, IdentB>>, NoPos, NoPos))

DoInit ==
    /\ AllIdle
    /\ p = P0
    /\ \E n \in 0..MaxArgs :
          \E args \in [1..n -> {IdentA, IdentB}], body \in DoBodies,
             c \in DoContexts :
             /\ c \in {"argument", "first"} => body.Small
             /\ op = [name |-> "ast", x |-> InContext(c, DoCall(args, body))]

SpecDo == DoInit /\ [][RoundTripNext]_vars

\* C12: a call whose last argument is a function literal, printed in the
\* do form and parsed again, comes back as the same call - the same
\* arguments, the same body of the literal - in the same expression around
\* it, whatever the context it stands in.
C12_DoFormRoundTrip ==
    op.name = "parsed" =>
        /\ p.abort = "none"
        /\ Shape(p, op.y) = Shape(Printer(Arena, ""), op.x)

----------------------------------------------------------------------------
(* SpecBlock: parseStmt on statements that hold blocks of each form       *)

MaxStmts == 2       \* statements of an indented block

\* The statements of the lines of a block: a / return / return a, each
\* with the shape it is to parse to
LineForms ==
    {[toks |-> <<Id("a")>>, shape |-> <<"ExprStmt", <<"Ident", "a">>>>],
     [toks |-> <<T("RETURN")>>, shape |-> <<"ReturnStmt", <<>>>>],
     [toks |-> <<T("RETURN"), Id("a")>>,
      shape |-> <<"ReturnStmt", <<<<"Ident", "a">>>>>>]}

\* The small statements of a short block: those, and the call T(a)
SmallForms ==
    LineForms
    \cup {[toks |-> <<Id("T"), T("LPAREN"), Id("a"), T("RPAREN")>>,
           shape |-> <<"ExprStmt", <<"CallExpr", <<"Ident", "T">>,
                                     <<<<"Ident", "a">>>>>>>>]}

\* The statements a block source is made of: colon is where a short
\* block with a statement starts, 0 if there is none.
BlockSource(form, toks, colon, small) ==
    [form |-> form, toks |-> toks, colon |-> colon, small |-> small]

\* : s / do : s / T() do (): s - the short forms of parseBlockStmt and of
\* parseBody
ShortSources ==
    {BlockSource("colon", <<T("COLON")>> \o s.toks \o <<NL>>, 1, s) :
        s \in SmallForms}
    \cup {BlockSource("do", <<T("DO"), T("COLON")>> \o s.toks \o <<NL>>, 2, s) :
             s \in SmallForms}
    \cup {BlockSource("literal",
                      <<Id("T")>> \o Sig \o <<T("DO")>> \o Sig \o <<T("COLON")>>
                      \o s.toks \o <<NL>>, 7, s) :
             s \in SmallForms}

\* The short forms without a statement
EmptySources ==
    {BlockSource("colon", <<T("COLON"), NL>>, 0, <<>>),
     BlockSource("literal",
                 <<Id("T")>> \o Sig \o <<T("DO")>> \o Sig \o <<T("COLON"), NL>>,
                 0, <<>>)}

\* n statements, each on its line
RECURSIVE StmtLines(_)
StmtLines(n) ==
    IF n = 1 THEN {s.toks : s \in LineForms}
    ELSE {s.toks \o <<NL>> \o l : s \in LineForms, l \in StmtLines(n - 1)}

\* The statements of an indented block
IndentedLines == UNION {StmtLines(n) : n \in 1..MaxStmts}

\* The indented forms: of a block statement after do and on its own, of
\* the body of a function literal
IndentedSources ==
    {BlockSource("do", <<T("DO"), NL, T("INDENT")>> \o l \o <<T("DEDENT")>>, 0, <<>>) :
        l \in IndentedLines}
    \cup {BlockSource("indent", <<NL, T("INDENT")>> \o l \o <<T("DEDENT")>>, 0, <<>>) :
             l \in IndentedLines}
    \cup {BlockSource("literal",
                      <<Id("T")>> \o Sig \o <<T("DO")>> \o Sig
                      \o <<NL, T("INDENT")>> \o l \o <<T("DEDENT")>>, 0, <<>>) :
             l \in IndentedLines}

\* The clauses of a switch: a statement on the line of the case, on the
\* lines after it, no statement, an empty line
ClauseBodies ==
    {s.toks \o <<NL>> : s \in LineForms}
    \cup {<<T("COLON")>> \o s.toks \o <<NL>> : s \in LineForms}
    \cup {<<>>, <<NL>>}

\* switch, and on the lines after it a case and a default
SwitchSources ==
    {BlockSource("switch",
                 <<T("SWITCH"), NL, T("INDENT"), T("CASE"), Id("a"), T("COLON")>>
                 \o c \o <<T("DEFAULT"), T("COLON")>> \o d \o <<T("DEDENT")>>,
                 0, <<>>) :
        c \in ClauseBodies, d \in ClauseBodies}

BlockSources ==
    ShortSources \cup EmptySources \cup IndentedSources \cup SwitchSources

\* After the statement comes another: b on the next line.
BlockInit ==
    /\ AllIdle
    /\ \E src \in BlockSources :
          /\ p = ParserAt(src.toks \o <<Id("b"), NL>>)
          /\ op = [name |-> "source", form |-> src.form, colon |-> src.colon,
                   small |-> src.small]

\* parseStmt on the statement
ParseBlock ==
    /\ op.name = "source"
    /\ \E r \in {Parse("parseStmt", <<p>>)} :
          /\ p' = r.q
          /\ hist' = <<r.x>>
    /\ op' = [op EXCEPT !.name = "parseStmt"]
    /\ UNCHANGED OtherVars

SpecBlock == BlockInit /\ [][ParseBlock]_vars

\* The blocks of a node, itself included
RECURSIVE Blocks(_)
RECURSIVE BlocksOfList(_)
Blocks(n) ==
    CASE n.kind = "BlockStmt" -> {n} \cup BlocksOfList(n.List)
      [] n.kind = "ExprStmt" -> Blocks(n.X)
      [] n.kind = "ReturnStmt" -> BlocksOfList(n.Results)
      [] n.kind = "SwitchStmt" -> Blocks(n.Body)
      [] n.kind = "CaseClause" -> BlocksOfList(n.List) \cup BlocksOfList(n.Body)
      [] n.kind = "CallExpr" -> Blocks(n.Fun) \cup BlocksOfList(n.Args)
      [] n.kind = "FuncLit" -> Blocks(n.Body)
      [] n.kind = "BinaryExpr" -> Blocks(n.X) \cup Blocks(n.Y)
      [] n.kind \in {"ParenExpr", "UnaryExpr"} -> Blocks(n.X)
      [] OTHER -> {}
BlocksOfList(list) ==
    IF list = <<>> THEN {} ELSE Blocks(Head(list)) \cup BlocksOfList(Tail(list))

\* ast.Node.Pos: where a node starts
RECURSIVE NodePos(_, _)
NodePos(q, n) ==
    CASE n.kind = "Ident" -> q.idents[n.X].NamePos
      [] n.kind = "BinaryExpr" -> NodePos(q, n.X)
      [] n.kind = "CallExpr" -> NodePos(q, n.Fun)
      [] n.kind = "ParenExpr" -> n.Lparen
      [] n.kind = "UnaryExpr" -> n.OpPos
      [] n.kind = "FuncLit" -> n.Func
      [] n.kind = "ExprStmt" -> NodePos(q, n.X)
      [] n.kind = "ReturnStmt" -> n.Return
      [] n.kind = "EmptyStmt" -> n.Semicolon
      [] n.kind = "SwitchStmt" -> n.Switch
      [] n.kind = "CaseClause" -> n.Case
      [] n.kind = "BlockStmt" -> n.Opening

\* The position of the first semicolon after a position
FirstSemicolon(q, pos) ==
    CHOOSE k \in (pos + 1)..Len(q.toks) :
        /\ q.toks[k].tok = "SEMICOLON"
        /\ \A j \in (pos + 1)..(k - 1) : q.toks[j].tok # "SEMICOLON"

\* C15: the block parsed from a colon and one small statement on its line
\* is small, holds exactly that statement, opens at the colon and closes
\* at the semicolon that ends the statement.
C15_ShortBlock ==
    op.name = "parseStmt" /\ op.colon # 0 =>
        /\ p.abort = "none"
        /\ \E b \in Blocks(hist[1]) : b.Opening = op.colon
        /\ \A b \in Blocks(hist[1]) :
              /\ b.Small
              /\ Len(b.List) = 1
              /\ Shape(p, b.List[1]) = op.small.shape
              /\ b.Opening = op.colon
              /\ b.Closing = FirstSemicolon(p, op.colon)

\* C16: every block parsed opens no later than it closes, and each of its
\* statements starts between its opening and its closing.
C16_BlockPositions ==
    op.name = "parseStmt" /\ p.abort = "none" =>
        \A b \in Blocks(hist[1]) :
            /\ b.Opening <= b.Closing
            /\ \A i \in 1..Len(b.List) :
                  /\ b.Opening <= NodePos(p, b.List[i])
                  /\ NodePos(p, b.List[i]) <= b.Closing

\* A switch has been parsed whose clauses hold a short block and an empty
\* block, the body of the switch being a third.
C16_Witness ==
    /\ op.name = "parseStmt"
    /\ op.form = "switch"
    /\ p.abort = "none"
    /\ \E b \in Blocks(hist[1]) : b.Small /\ Len(b.List) = 1
    /\ \E b \in Blocks(hist[1]) : ~b.Small /\ b.List = <<>>
    /\ \E b \in Blocks(hist[1]) : ~b.Small /\ Len(b.List) = 2

----------------------------------------------------------------------------
(* SpecMethod: the declarations of a file printed one after the other     *)

\* A test that lets the blank name be stashed as well
stashesName_Blank(s, d) == d.Recv # <<>> /\ d.Recv[1].Names # <<>>

\* if names := d.Recv.List[0].Names; len(names) > 0 { if name := names[0];
\* name != nil && name.Name != "_" {
stashesName(s, d) ==
    /\ d.Recv # <<>>
    /\ d.Recv[1].Names # <<>>
    /\ s.idents[d.Recv[1].Names[1]].Name # "_"

\* rcvName while the name, the signature and the body are printed
receiverName(s, d) ==
    IF stashesName(s, d) THEN s.idents[d.Recv[1].Names[1]].Name ELSE s.rcvName

\* printer.funcDecl: what it prints, and rcvName when it returns - the
\* deferred function clears the name that was stashed.
funcDecl(s, d) ==
    [toks |-> <<T("FUNC")>>
              \o (IF d.Recv # <<>>
                  THEN expr(s, d.Recv[1].Type) \o <<T("PERIOD")>> ELSE <<>>)
              \o expr([s EXCEPT !.rcvName = receiverName(s, d)], Expr("Ident", d.Name))
              \o signature([s EXCEPT !.rcvName = receiverName(s, d)], d.Params)
              \o adjBlock([s EXCEPT !.rcvName = receiverName(s, d)], d.Body),
     rcvName |-> IF stashesName(s, d) THEN "" ELSE s.rcvName]

\* The expressions of a body: a, b, _, a + b, T(a), T(b, func() { return a })
MethodExprs ==
    {IdentA, IdentB, IdentBlank, BinaryExpr(IdentA, NoPos, "ADD", IdentB),
     CallExpr(IdentT, NoPos, <<IdentA>>, NoPos, NoPos),
     DoCall(<<IdentB>>, BlockStmt(NoPos, <<ReturnStmt(NoPos, <<IdentA>>)>>,
                                  NoPos, TRUE))}

\* The bodies: a return of the expression, the expression as a statement
MethodBodies ==
    {BlockStmt(NoPos, <<ReturnStmt(NoPos, <<x>>)>>, NoPos, TRUE) : x \in MethodExprs}
    \cup {BlockStmt(NoPos, <<ExprStmt(x)>>, NoPos, FALSE) : x \in MethodExprs}

\* The receivers: none, T without a name, T named a, b or _
Receivers ==
    {<<>>, <<Field(<<>>, IdentT)>>, <<Field(<<1>>, IdentT)>>,
     <<Field(<<2>>, IdentT)>>, <<Field(<<4>>, IdentT)>>}

\* The declarations: T is the name of each.
MethodDecls ==
    {FuncDecl(recv, 3, NoPos, 0, body) : recv \in Receivers, body \in MethodBodies}

\* The functions that follow a method in a file: return a / return b
PlainDecls ==
    {FuncDecl(<<>>, 3, NoPos, 0,
              BlockStmt(NoPos, <<ReturnStmt(NoPos, <<x>>)>>, NoPos, TRUE)) :
        x \in {IdentA, IdentB}}

MethodInit ==
    /\ AllIdle
    /\ p = P0
    /\ \E d \in MethodDecls : \E rest \in {<<>>} \cup {<<e>> : e \in PlainDecls} :
          op = [name |-> "file", decls |-> <<d>> \o rest, at |-> 1, rcvName |-> ""]

\* printer.funcDecl on the next declaration of the file
PrintFuncDecl ==
    /\ op.name = "file"
    /\ op.at <= Len(op.decls)
    /\ \E r \in {funcDecl(Printer(Arena, op.rcvName), op.decls[op.at])} :
          /\ hist' = Append(hist, r.toks)
          /\ op' = [op EXCEPT !.at = @ + 1, !.rcvName = r.rcvName]
    /\ UNCHANGED <<p, OtherVars>>

SpecMethod == MethodInit /\ [][PrintFuncDecl]_vars

\* The declared name of the receiver, "" if there is none
DeclaredReceiver(d) ==
    IF d.Recv = <<>> \/ d.Recv[1].Names = <<>> THEN ""
    ELSE Arena[d.Recv[1].Names[1]].Name

\* The body as it is printed when no name is stashed
PlainBody(d) == adjBlock(Printer(Arena, ""), d.Body)

\* What was printed for the body: the last tokens of the declaration
PrintedBody(out, d) ==
    SubSeq(out, Len(out) - Len(PlainBody(d)) + 1, Len(out))

----------------------------------------------------------------------------
(* SpecBody: parseDecl on functions whose bodies use what they declare    *)

\* The heads of the functions, each with the names its function scope
\* declares: the receiver self of a method, the parameter b
BodyHeads ==
    {[toks |-> <<T("FUNC"), Id("T"), T("PERIOD"), Id("a")>> \o Sig,
      names |-> {"self"}],
     [toks |-> <<T("FUNC"), T("MUL"), Id("T"), T("PERIOD"), Id("a")>> \o Sig,
      names |-> {"self"}],
     [toks |-> <<T("FUNC"), Id("a"), T("LPAREN"), Id("b"), Id("T"), T("RPAREN")>>,
      names |-> {"b"}],
     [toks |-> <<T("FUNC"), Id("T"), T("PERIOD"), Id("a"),
                 T("LPAREN"), Id("b"), Id("T"), T("RPAREN")>>,
      names |-> {"self", "b"}]}

\* The statements that use the name n: n / return n / T(n)
BodyUses(n) ==
    {<<Id(n)>>, <<T("RETURN"), Id(n)>>,
     <<Id("T"), T("LPAREN"), Id(n), T("RPAREN")>>}

\* The bodies with the statement s: short, indented, indented after a
\* statement that does not use the name
BodyForms(s) ==
    {[form |-> "short", toks |-> <<T("COLON")>> \o s \o <<NL>>],
     [form |-> "indented",
      toks |-> <<NL, T("INDENT")>> \o s \o <<T("DEDENT")>>],
     [form |-> "indented",
      toks |-> <<NL, T("INDENT"), Id("T"), NL>> \o s \o <<T("DEDENT")>>]}

\* What comes before the function: nothing, or a function of the name n,
\* which the package scope then holds
BodyOuter(n) == {<<>>, <<T("FUNC"), Id(n)>> \o Sig \o <<T("COLON"), NL>>}

BodyInit ==
    /\ AllIdle
    /\ \E h \in BodyHeads : \E n \in h.names : \E s \in BodyUses(n) :
       \E b \in BodyForms(s) : \E o \in BodyOuter(n) :
          /\ p = ParserAt(o \o h.toks \o b.toks)
          /\ op = [name |-> "body", use |-> n, form |-> b.form,
                   decls |-> IF o = <<>> THEN 1 ELSE 2]

\* parseDecl on the next declaration of the source
ParseBodyDecl ==
    /\ op.name = "body"
    /\ p.abort = "none"
    /\ Len(hist) < op.decls
    /\ \E r \in {parseDecl(p)} :
          /\ p' = [r.q EXCEPT !.decls = Append(@, r.decl)]
          /\ hist' = Append(hist, r.decl)
    /\ UNCHANGED <<op, OtherVars>>

SpecBody == BodyInit /\ [][ParseBodyDecl]_vars

\* The declarations of the source are parsed.
BodyParsed == op.name = "body" /\ p.abort = "none" /\ Len(hist) = op.decls

\* The function that uses the name: the last of the source
BodyFunc == hist[Len(hist)]

\* The identifier of the body that uses the name: the last the parser made
BodyUse == p.idents[Len(p.idents)]

\* C19: when a function is parsed, the identifier of its body that names
\* its receiver self or a parameter has the Object that the function scope
\* holds for the name, in a short body and in an indented one, and is not
\* in the list of unresolved identifiers.
C19_FunctionScopeInForce ==
    BodyParsed =>
        /\ BodyUse.Name = op.use
        /\ Lookup(p.scopes[BodyFunc.scope], op.use) # nil
        /\ BodyUse.Obj = Lookup(p.scopes[BodyFunc.scope], op.use)
        /\ \A i \in 1..Len(p.unresolved) : p.unresolved[i] # Len(p.idents)

----------------------------------------------------------------------------
(* SpecRecv: methods whose name or parameters bear the receiver's name    *)

\* The parameter lists: none, (a T), (b T), (T)
RecvParams ==
    {<<>>, <<Field(<<1>>, IdentT)>>, <<Field(<<2>>, IdentT)>>,
     <<Field(<<>>, IdentT)>>}

\* The declarations: named a or T, with the body return a or return b
RecvDecls ==
    {[FuncDecl(recv, name, NoPos, 0,
               BlockStmt(NoPos, <<ReturnStmt(NoPos, <<x>>)>>, NoPos, TRUE))
         EXCEPT !.Params = ps] :
        recv \in Receivers, name \in {1, 3}, ps \in RecvParams,
        x \in {IdentA, IdentB}}

RecvInit ==
    /\ AllIdle
    /\ p = P0
    /\ \E d \in RecvDecls : \E rest \in {<<>>} \cup {<<e>> : e \in PlainDecls} :
          op = [name |-> "file", decls |-> <<d>> \o rest, at |-> 1, rcvName |-> ""]

SpecRecv == RecvInit /\ [][PrintFuncDecl]_vars

\* What comes before the body when no name is stashed: the keyword, the
\* receiver's type, the name and the signature
PlainHead(d) ==
    <<T("FUNC")>>
    \o (IF d.Recv # <<>>
        THEN expr(Printer(Arena, ""), d.Recv[1].Type) \o <<T("PERIOD")>>
        ELSE <<>>)
    \o expr(Printer(Arena, ""), Expr("Ident", d.Name))
    \o signature(Printer(Arena, ""), d.Params)

\* C21: the receiver's name is nil before and after each declaration is
\* printed, and the name and the signature of each declaration are printed
\* unchanged, whatever the receiver is called; a function that follows a
\* method is printed unchanged as a whole.
C21_ReceiverNameScoped ==
    op.name = "file" =>
        /\ op.rcvName = ""
        /\ \A k \in 1..Len(hist) :
              /\ Len(hist[k]) >= Len(PlainHead(op.decls[k]))
              /\ SubSeq(hist[k], 1, Len(PlainHead(op.decls[k])))
                     = PlainHead(op.decls[k])
              /\ k > 1 =>
                    hist[k] = PlainHead(op.decls[k]) \o PlainBody(op.decls[k])

\* The same, of the declarations whose name and parameters are not called
\* as the receiver
C21_Elsewhere ==
    op.name = "file" =>
        /\ op.rcvName = ""
        /\ \A k \in 1..Len(hist) :
              (\/ DeclaredReceiver(op.decls[k]) \in {"", "_"}
               \/ /\ Arena[op.decls[k].Name].Name # DeclaredReceiver(op.decls[k])
                  /\ \A i \in 1..Len(op.decls[k].Params) :
                        \A j \in 1..Len(op.decls[k].Params[i].Names) :
                           Arena[op.decls[k].Params[i].Names[j]].Name
                              # DeclaredReceiver(op.decls[k]))
              => /\ SubSeq(hist[k], 1, Len(PlainHead(op.decls[k])))
                       = PlainHead(op.decls[k])
                 /\ k > 1 =>
                       hist[k] = PlainHead(op.decls[k]) \o PlainBody(op.decls[k])

----------------------------------------------------------------------------
(* SpecAdj: the bodies of if and for statements and of functions          *)

\* The statements of a body: return, return a, break, continue a, the
\* empty statement, a++, b--, a, T(a)
AdjSimple ==
    {ReturnStmt(NoPos, <<>>), ReturnStmt(NoPos, <<IdentA>>),
     BranchStmt("BREAK", NoExpr), BranchStmt("CONTINUE", IdentA),
     EmptyStmt(NoPos), IncDecStmt(IdentA, "INC"), IncDecStmt(IdentB, "DEC")}
AdjOther ==
    {ExprStmt(IdentA), ExprStmt(CallExpr(IdentT, NoPos, <<IdentA>>, NoPos, NoPos))}

\* The bodies: none, of no statement, of one statement, of two
AdjBodies ==
    {NoStmt, BlockStmt(NoPos, <<>>, NoPos, FALSE)}
    \cup {BlockStmt(NoPos, <<x>>, NoPos, FALSE) : x \in AdjSimple \cup AdjOther}
    \cup {BlockStmt(NoPos, <<x, ReturnStmt(NoPos, <<>>)>>, NoPos, FALSE) :
             x \in {ReturnStmt(NoPos, <<IdentA>>), ExprStmt(IdentA)}}

\* What bears the body: if a, for a, for, func T(), func() as an
\* expression statement, T() do ()
AdjHeads == {"if", "for", "forever", "funcDecl", "FuncLit", "do"}

\* The node of a head with its body
AdjNode(head, body) ==
    CASE head = "if" -> IfStmt(IdentA, body)
      [] head = "for" -> ForStmt(IdentA, body)
      [] head = "forever" -> ForStmt(NoExpr, body)
      [] head = "funcDecl" -> FuncDecl(<<>>, 3, NoPos, 0, body)
      [] head = "FuncLit" -> ExprStmt(FuncLit(NoPos, <<>>, 0, body))
      [] head = "do" -> ExprStmt(DoCall(<<>>, body))

\* A function declaration may lack its body; the body of a statement and
\* of a literal is never nil.
AdjInit ==
    /\ AllIdle
    /\ p = P0
    /\ \E head \in AdjHeads : \E body \in AdjBodies : \E c \in BOOLEAN :
          /\ body = NoStmt => head = "funcDecl"
          /\ op = [name |-> "adj", head |-> head, body |-> body,
                   commentNewline |-> c]

\* printer.funcDecl on a declaration, printer.stmt on a statement
PrintAdj ==
    /\ op.name = "adj"
    /\ hist = <<>>
    /\ hist' = <<IF op.head = "funcDecl"
                 THEN funcDecl([Printer(Arena, "") EXCEPT
                                   !.commentNewline = op.commentNewline],
                               AdjNode(op.head, op.body)).toks
                 ELSE stmt([Printer(Arena, "") EXCEPT
                               !.commentNewline = op.commentNewline],
                           AdjNode(op.head, op.body))>>
    /\ UNCHANGED <<p, op, OtherVars>>

SpecAdj == AdjInit /\ [][PrintAdj]_vars

\* What is printed before the body
AdjHeader(head) ==
    CASE head = "if" -> <<T("IF"), Id("a")>>
      [] head = "for" -> <<T("FOR"), Id("a")>>
      [] head = "forever" -> <<T("FOR")>>
      [] head = "funcDecl" -> <<T("FUNC"), Id("T"), T("LPAREN"), T("RPAREN")>>
      [] head = "FuncLit" -> <<T("FUNC"), T("LPAREN"), T("RPAREN")>>
      [] head = "do" -> <<Id("T"), T("LPAREN"), T("RPAREN"), T("DO"),
                          T("LPAREN"), T("RPAREN")>>

\* What was printed for the body
AdjPrinted == SubSeq(hist[1], Len(AdjHeader(op.head)) + 1, Len(hist[1]))

\* The body is one return, branch, empty or inc/dec statement, and no
\* comment was interposed.
AdjOneSimple ==
    /\ Len(op.body.List) = 1
    /\ op.body.List[1] \in AdjSimple
    /\ ~op.commentNewline

\* The shapes: a colon alone; a colon and the statement on the header's
\* line; the statements indented on the lines that follow
AdjShapeHolds ==
    /\ SubSeq(hist[1], 1, Len(AdjHeader(op.head))) = AdjHeader(op.head)
    /\ IF op.body = NoStmt THEN AdjPrinted = <<>>
       ELSE IF op.body.List = <<>> THEN AdjPrinted = <<T("COLON")>>
       ELSE IF AdjOneSimple
       THEN /\ AdjPrinted = <<T("COLON")>> \o stmt(Printer(Arena, ""), op.body.List[1])
            /\ \A i \in 1..Len(AdjPrinted) : AdjPrinted[i] # NL
       ELSE /\ Len(AdjPrinted) >= 3
            /\ AdjPrinted[1] = NL
            /\ AdjPrinted[2] = T("INDENT")
            /\ AdjPrinted[Len(AdjPrinted)] = T("DEDENT")
            /\ \A i \in 1..Len(AdjPrinted) : AdjPrinted[i] # T("COLON")

----------------------------------------------------------------------------
(* SpecCutoff: the cutoff of binary expressions                           *)

\* &ast.StarExpr{X}
StarExpr(x) == [kind |-> "StarExpr", X |-> x]

\* token.Token.String of the operators
TokenString ==
    [LOR |-> "||", LAND |-> "&&", EQL |-> "==", NEQ |-> "!=", LSS |-> "<",
     ADD |-> "+", SUB |-> "-", MUL |-> "*", QUO |-> "/", AND |-> "&",
     XOR |-> "^", NOT |-> "!"]

\* The unary case of walkBinary, which lets ++ and -- lower what was found
unaryProblem_Last(e, maxProblem) ==
    IF TokenString[e.Op] \o TokenString[e.Y.Op] \in {"/*", "&&", "&^"} THEN 5
    ELSE IF TokenString[e.Op] \o TokenString[e.Y.Op] \in {"++", "--"} THEN 4
    ELSE maxProblem

\* walkBinary, case *ast.UnaryExpr of the right operand
unaryProblem(e, maxProblem) ==
    IF TokenString[e.Op] \o TokenString[e.Y.Op] \in {"/*", "&&", "&^"} THEN 5
    ELSE IF TokenString[e.Op] \o TokenString[e.Y.Op] \in {"++", "--"}
    THEN (IF maxProblem < 4 THEN 4 ELSE maxProblem)
    ELSE maxProblem

\* walkBinary once the left operand is walked: l is what was found in e
\* and its left operand, r what was found in the right operand if it is a
\* binary expression that gets no parentheses
walkRight(e, l, r) ==
    IF e.Y.kind = "BinaryExpr"
    THEN (IF Precedence(e.Y.Op) <= Precedence(e.Op) THEN l
          ELSE [has4 |-> l.has4 \/ r.has4, has5 |-> l.has5 \/ r.has5,
                maxProblem |-> IF l.maxProblem < r.maxProblem
                               THEN r.maxProblem ELSE l.maxProblem])
    ELSE IF e.Y.kind = "StarExpr"
    THEN (IF e.Op = "QUO" THEN [l EXCEPT !.maxProblem = 5] ELSE l)
    ELSE IF e.Y.kind = "UnaryExpr"
    THEN [l EXCEPT !.maxProblem = unaryProblem(e, l.maxProblem)]
    ELSE l

\* walkBinary
RECURSIVE walkBinary(_)
walkBinary(e) ==
    walkRight(e,
        IF e.X.kind = "BinaryExpr" /\ Precedence(e.X.Op) >= Precedence(e.Op)
        THEN [has4 |-> Precedence(e.Op) = 4 \/ walkBinary(e.X).has4,
              has5 |-> Precedence(e.Op) = 5 \/ walkBinary(e.X).has5,
              maxProblem |-> walkBinary(e.X).maxProblem]
        ELSE [has4 |-> Precedence(e.Op) = 4, has5 |-> Precedence(e.Op) = 5,
              maxProblem |-> 0],
        IF e.Y.kind = "BinaryExpr" THEN walkBinary(e.Y)
        ELSE [has4 |-> FALSE, has5 |-> FALSE, maxProblem |-> 0])

\* cutoff
cutoff(e, depth) ==
    IF walkBinary(e).maxProblem > 0 THEN walkBinary(e).maxProblem + 1
    ELSE IF walkBinary(e).has4 /\ walkBinary(e).has5
    THEN (IF depth = 1 THEN 5 ELSE 4)
    ELSE IF depth = 1 THEN 6 ELSE 4

\* printer.binaryExpr: printBlank := prec < cutoff
printBlank(x, c) == Precedence(x.Op) < c

\* The depths at which an expression is printed: 1..MaxDepth
MaxDepth == 3

\* The operands that are no binary expressions: a, +a, -a, &a, ^a, !a, *a
CutLeaves ==
    {IdentA, StarExpr(IdentA)}
    \cup {UnaryExpr(NoPos, o, IdentA) : o \in {"ADD", "SUB", "AND", "XOR", "NOT"}}

CutOps == {"LAND", "EQL", "ADD", "SUB", "QUO", "AND"}

\* The binary expressions of leaves, a on the left
CutSmall == {BinaryExpr(IdentA, NoPos, o, y) : o \in CutOps, y \in CutLeaves}

\* The binary expressions of those and of leaves
CutExprs ==
    CutSmall
    \cup {BinaryExpr(x, NoPos, o, y) :
            x \in {IdentA} \cup CutSmall, o \in CutOps, y \in CutLeaves \cup CutSmall}

CutInit ==
    /\ AllIdle
    /\ p = P0
    /\ \E e \in CutExprs : \E depth \in 1..MaxDepth :
          op = [name |-> "cutoff", e |-> e, depth |-> depth]

\* printer.expr1, case *ast.BinaryExpr: cutoff(x, depth) is what
\* binaryExpr gets, and decides the blank before the operator.
ApplyCutoff ==
    /\ op.name = "cutoff"
    /\ hist = <<>>
    /\ hist' = <<[cutoff |-> cutoff(op.e, op.depth),
                  blank |-> printBlank(op.e, cutoff(op.e, op.depth))]>>
    /\ UNCHANGED <<p, op, OtherVars>>

SpecCutoff == CutInit /\ [][ApplyCutoff]_vars

\* The binary expressions of e that are not printed between parentheses:
\* e, and those of its left operand if that binds at least as tightly, and
\* of its right operand if that binds more tightly
RECURSIVE Unparenthesised(_)
Unparenthesised(e) ==
    {e}
    \cup (IF e.X.kind = "BinaryExpr" /\ Precedence(e.X.Op) >= Precedence(e.Op)
          THEN Unparenthesised(e.X) ELSE {})
    \cup (IF e.Y.kind = "BinaryExpr" /\ Precedence(e.Y.Op) > Precedence(e.Op)
          THEN Unparenthesised(e.Y) ELSE {})

\* The operator of n and the first character of its right operand
Clash(n) ==
    IF n.Y.kind = "StarExpr" THEN TokenString[n.Op] \o "*"
    ELSE IF n.Y.kind = "UnaryExpr" THEN TokenString[n.Op] \o TokenString[n.Y.Op]
    ELSE ""

\* C23: at a depth of at least 1 the cutoff is 6 if an operator that is
\* not parenthesised clashes with its right operand as /*, && or &^, else
\* 5 if one clashes as ++ or --, else 5 at depth 1 and 4 beyond if
\* operators of precedence 4 and 5 are mixed, else 6 at depth 1 and 4
\* beyond; it is in 4..6, and an operator of precedence 3 or less gets its
\* blank.
C23_Cutoff ==
    op.name = "cutoff" /\ hist # <<>> =>
        /\ hist[1].cutoff =
              IF \E n \in Unparenthesised(op.e) : Clash(n) \in {"/*", "&&", "&^"}
              THEN 6
              ELSE IF \E n \in Unparenthesised(op.e) : Clash(n) \in {"++", "--"}
              THEN 5
              ELSE IF /\ \E n \in Unparenthesised(op.e) : Precedence(n.Op) = 4
                      /\ \E n \in Unparenthesised(op.e) : Precedence(n.Op) = 5
              THEN (IF op.depth = 1 THEN 5 ELSE 4)
              ELSE IF op.depth = 1 THEN 6 ELSE 4
        /\ hist[1].cutoff \in 4..6
        /\ Precedence(op.e.Op) <= 3 => hist[1].blank

\* The cutoff was taken of an expression whose operator clashes with its
\* right operand as ++, and whose left operand, not parenthesised, holds a
\* clash as &^: it is 6.
C23_Witness ==
    /\ op.name = "cutoff" /\ hist # <<>>
    /\ op.e.X.kind = "BinaryExpr"
    /\ op.e.X \in Unparenthesised(op.e)
    /\ Clash(op.e.X) = "&^"
    /\ Clash(op.e) = "++"
    /\ hist[1].cutoff = 6

----------------------------------------------------------------------------
(* SpecKeepType: the type column of grouped const and var declarations    *)

\* The number of specs of a group
MaxSpecs == 4

\* An *ast.ValueSpec, by whether Type and Values are non-nil
ValueSpec(typ, values) == [Type |-> typ, Values |-> values]

\* populate(i, j, keepType) of keepTypeColumn: m[i..j-1] = true; the
\* indices start at 1 here.
populate(m, i, j, keepType) ==
    IF keepType THEN [k \in 1..Len(m) |-> IF i <= k /\ k < j THEN TRUE ELSE m[k]]
    ELSE m

\* A turn of the loop that does not reset keepType when a run starts
keepTypeStep_NoReset(st, t, i) ==
    [m |-> IF ~t.Values /\ st.i0 > 0 THEN populate(st.m, st.i0, i, st.keepType)
           ELSE st.m,
     i0 |-> IF t.Values THEN (IF st.i0 = 0 THEN i ELSE st.i0) ELSE 0,
     keepType |-> t.Type \/ st.keepType]

\* A turn of the loop of keepTypeColumn on the spec t at i; i0 = 0 is no
\* run.
keepTypeStep(st, t, i) ==
    [m |-> IF ~t.Values /\ st.i0 > 0 THEN populate(st.m, st.i0, i, st.keepType)
           ELSE st.m,
     i0 |-> IF t.Values THEN (IF st.i0 = 0 THEN i ELSE st.i0) ELSE 0,
     keepType |-> t.Type \/ (IF t.Values /\ st.i0 = 0 THEN FALSE ELSE st.keepType)]

\* The loop from the spec at i on
RECURSIVE keepTypeLoop(_, _, _)
keepTypeLoop(st, specs, i) ==
    IF i > Len(specs) THEN st
    ELSE keepTypeLoop(keepTypeStep(st, specs[i], i), specs, i + 1)

\* keepTypeColumn
keepTypeColumn(specs) ==
    CHOOSE m \in {IF st.i0 > 0
                  THEN populate(st.m, st.i0, Len(specs) + 1, st.keepType)
                  ELSE st.m :
                  st \in {keepTypeLoop([m |-> [k \in 1..Len(specs) |-> FALSE],
                                        i0 |-> 0, keepType |-> FALSE],
                                       specs, 1)}} : TRUE

\* The groups: up to MaxSpecs specs, each with or without type and values
SpecGroups ==
    UNION {[1..n -> {ValueSpec(t, v) : t \in BOOLEAN, v \in BOOLEAN}] : n \in 0..MaxSpecs}

KeepInit ==
    /\ AllIdle
    /\ p = P0
    /\ \E specs \in SpecGroups : op = [name |-> "keepTypeColumn", specs |-> specs]

\* keepTypeColumn on the specs of a group
ApplyKeepTypeColumn ==
    /\ op.name = "keepTypeColumn"
    /\ hist = <<>>
    /\ hist' = <<keepTypeColumn(op.specs)>>
    /\ UNCHANGED <<p, op, OtherVars>>

SpecKeepType == KeepInit /\ [][ApplyKeepTypeColumn]_vars

\* i and j lie in one run: all specs between them have values.
SameRun(specs, i, j) ==
    \A k \in 1..Len(specs) : (i <= k /\ k <= j) \/ (j <= k /\ k <= i) => specs[k].Values

\* C24: entry i of the result is true exactly if spec i has values and a
\* spec of its maximal run of specs with values has a type; the entry of
\* a spec without values is false, and a type outside a run does not
\* reach a later run.
C24_KeepTypeColumn ==
    op.name = "keepTypeColumn" /\ hist # <<>> =>
        /\ Len(hist[1]) = Len(op.specs)
        /\ \A i \in 1..Len(op.specs) :
              hist[1][i] <=> /\ op.specs[i].Values
                             /\ \E j \in 1..Len(op.specs) :
                                   SameRun(op.specs, i, j) /\ op.specs[j].Type

\* The result was taken of a group in which a spec with a type and without
\* values stands before a run without types, and a run with a type
\* follows: the first run slides, the second is kept.
C24_Witness ==
    /\ op.name = "keepTypeColumn" /\ hist # <<>>
    /\ Len(op.specs) = 4
    /\ op.specs[1] = ValueSpec(TRUE, FALSE)
    /\ op.specs[2] = ValueSpec(FALSE, TRUE)
    /\ op.specs[3] = ValueSpec(FALSE, FALSE)
    /\ op.specs[4] = ValueSpec(TRUE, TRUE)
    /\ hist[1] = <<FALSE, FALSE, FALSE, TRUE>>

----------------------------------------------------------------------------
(* SpecNodeSize: the sizes of nodes a printer remembers                   *)

\* The nodes of a tree, the calls followed, the largest raw length
MaxNodes == 2
MaxCalls == 3
MaxRaw == 5

\* The values of maxSize asked for
MaxSizes == {2, 4}

\* What Config{Mode: RawFormat}.fprint writes for a node: the length of
\* the buffer, and whether it holds a character below ' '
RawFormats == [len : {1, 3, MaxRaw}, ctrl : BOOLEAN]

\* nodeSize: the size returned and p.nodeSizes after the call; a node not
\* in the map is at 0 here, no size remembered being less than 1.
nodeSize(nodeSizes, raw, n, maxSize) ==
    IF nodeSizes[n] # 0 THEN [size |-> nodeSizes[n], nodeSizes |-> nodeSizes]
    ELSE IF raw[n].len <= maxSize /\ ~raw[n].ctrl
    THEN [size |-> raw[n].len, nodeSizes |-> [nodeSizes EXCEPT ![n] = raw[n].len]]
    ELSE [size |-> maxSize + 1, nodeSizes |-> [nodeSizes EXCEPT ![n] = maxSize + 1]]

NodeSizeInit ==
    /\ AllIdle
    /\ p = P0
    /\ \E raw \in [1..MaxNodes -> RawFormats] :
          op = [name |-> "nodeSize", raw |-> raw,
                nodeSizes |-> [n \in 1..MaxNodes |-> 0]]

\* A call of nodeSize on a node of the tree
NodeSize ==
    /\ op.name = "nodeSize"
    /\ Len(hist) < MaxCalls
    /\ \E n \in 1..MaxNodes : \E maxSize \in MaxSizes :
          \E r \in {nodeSize(op.nodeSizes, op.raw, n, maxSize)} :
             /\ hist' = Append(hist, [n |-> n, maxSize |-> maxSize, size |-> r.size])
             /\ op' = [op EXCEPT !.nodeSizes = r.nodeSizes]
    /\ UNCHANGED <<p, OtherVars>>

SpecNodeSize == NodeSizeInit /\ [][NodeSize]_vars

\* The node fits: its raw format has at most maxSize characters, none of
\* them a control character.
Fits(n, maxSize) == op.raw[n].len <= maxSize /\ ~op.raw[n].ctrl

\* The call c kept the contract.
ContractKept(c) ==
    /\ c.size <= c.maxSize <=> Fits(c.n, c.maxSize)
    /\ Fits(c.n, c.maxSize) => c.size = op.raw[c.n].len

\* C25: whatever calls of nodeSize came before on the printer, with the
\* same or another maxSize for the node, a call returns at most maxSize
\* exactly if the node fits in maxSize, and then the length of its raw
\* format.
C25_NodeSizeContract ==
    op.name = "nodeSize" => \A k \in 1..Len(hist) : ContractKept(hist[k])

\* The same, of the calls whose node was never asked for with another
\* maxSize before
C25_SameMaxSize ==
    op.name = "nodeSize" =>
        \A k \in 1..Len(hist) :
            (\A j \in 1..k : hist[j].n = hist[k].n => hist[j].maxSize = hist[k].maxSize)
                => ContractKept(hist[k])

----------------------------------------------------------------------------
(* SpecSync: syncStmt and syncDecl between the steps of the parser        *)

\* The tokens of a source before its last newline
MaxSyncToks == 3

\* The calls in a row without progress that return at once
SyncLimit == 10

\* The tokens syncStmt and syncDecl return at
StmtAnchors ==
    {"BREAK", "CONST", "CONTINUE", "DEFER", "FALLTHROUGH", "FOR", "GO", "GOTO",
     "IF", "RETURN", "SELECT", "SWITCH", "TYPE", "VAR"}
DeclAnchors == {"CONST", "TYPE", "VAR"}

\* A turn of the loop that returns without progress however often it did
syncTurn_NoLimit(q, anchors) ==
    IF tok(q) \in anchors /\ q.pos = q.syncPos
    THEN [q |-> [q EXCEPT !.syncCnt = @ + 1], returns |-> TRUE]
    ELSE IF tok(q) \in anchors /\ q.pos > q.syncPos
    THEN [q |-> [q EXCEPT !.syncPos = q.pos, !.syncCnt = 0], returns |-> TRUE]
    ELSE IF tok(q) = "EOF" THEN [q |-> q, returns |-> TRUE]
    ELSE [q |-> next(q), returns |-> FALSE]

\* A turn of the loop that returns without progress once more than the
\* limit
syncTurn_OneMore(q, anchors) ==
    IF tok(q) \in anchors /\ q.pos = q.syncPos /\ q.syncCnt <= SyncLimit
    THEN [q |-> [q EXCEPT !.syncCnt = @ + 1], returns |-> TRUE]
    ELSE IF tok(q) \in anchors /\ q.pos > q.syncPos
    THEN [q |-> [q EXCEPT !.syncPos = q.pos, !.syncCnt = 0], returns |-> TRUE]
    ELSE IF tok(q) = "EOF" THEN [q |-> q, returns |-> TRUE]
    ELSE [q |-> next(q), returns |-> FALSE]

\* A turn of the loop of syncStmt (anchors its tokens) or of syncDecl: it
\* returns, or it consumes the token and goes on.
syncTurn(q, anchors) ==
    IF tok(q) \in anchors /\ q.pos = q.syncPos /\ q.syncCnt < SyncLimit
    THEN [q |-> [q EXCEPT !.syncCnt = @ + 1], returns |-> TRUE]
    ELSE IF tok(q) \in anchors /\ q.pos > q.syncPos
    THEN [q |-> [q EXCEPT !.syncPos = q.pos, !.syncCnt = 0], returns |-> TRUE]
    ELSE IF tok(q) = "EOF" THEN [q |-> q, returns |-> TRUE]
    ELSE [q |-> next(q), returns |-> FALSE]

\* The sources: up to MaxSyncToks of if, var and a, and the newline that
\* ends the last line
SyncSources ==
    UNION {[1..n -> {T("IF"), T("VAR"), Id("a")}] : n \in 0..MaxSyncToks}

SyncInit ==
    /\ AllIdle
    /\ \E ts \in SyncSources : p = ParserAt(ts \o <<NL>>)
    /\ op = [name |-> "sync", pc |-> "parser", anchors |-> {}, at |-> 1,
             pos |-> 1, syncPos |-> NoPos, syncCnt |-> 0, called |-> FALSE]

\* The parser enters syncStmt or syncDecl: op keeps what the parser was at.
entered(anchors) ==
    [op EXCEPT !.pc = "sync", !.anchors = anchors, !.at = p.at, !.pos = p.pos,
               !.syncPos = p.syncPos, !.syncCnt = p.syncCnt, !.called = TRUE]

\* syncStmt is called.
CallSyncStmt ==
    /\ op.name = "sync"
    /\ op.pc = "parser"
    /\ op' = entered(StmtAnchors)
    /\ UNCHANGED <<p, hist, OtherVars>>

\* syncDecl is called.
CallSyncDecl ==
    /\ op.name = "sync"
    /\ op.pc = "parser"
    /\ op' = entered(DeclAnchors)
    /\ UNCHANGED <<p, hist, OtherVars>>

\* A turn of the loop of the call that is running
SyncTurn ==
    /\ op.name = "sync"
    /\ op.pc = "sync"
    /\ \E r \in {syncTurn(p, op.anchors)} :
          /\ p' = r.q
          /\ op' = [op EXCEPT !.pc = IF r.returns THEN "parser" ELSE "sync"]
    /\ UNCHANGED <<hist, OtherVars>>

\* The parser consumes a token between two calls.
ParserNext ==
    /\ op.name = "sync"
    /\ op.pc = "parser"
    /\ tok(p) # "EOF"
    /\ p' = next(p)
    /\ op' = [op EXCEPT !.called = FALSE]
    /\ UNCHANGED <<hist, OtherVars>>

SyncNext == CallSyncStmt \/ CallSyncDecl \/ SyncTurn \/ ParserNext

SpecSync == SyncInit /\ [][SyncNext]_vars

\* A call that is running goes on turn by turn: nothing else runs in the
\* parser.
SpecSyncLive == SpecSync /\ WF_vars(SyncTurn)

\* A call has returned, and the parser has not stepped since.
SyncReturned == op.name = "sync" /\ op.pc = "parser" /\ op.called

\* The token the call started at
SyncTok0 == IF op.at <= Len(p.toks) THEN p.toks[op.at].tok ELSE "EOF"

\* The call started at one of its tokens, at the recorded position.
SyncNoProgress == op.pos = op.syncPos /\ SyncTok0 \in op.anchors

\* C26: a call of syncStmt or syncDecl that returns at one of its tokens
\* has that position recorded. Started at the recorded position on one of
\* its tokens it returns at once and counts, up to 10 times in a row; the
\* call after those consumes the token, and so ends at a position beyond
\* or at EOF. A call started beyond the recorded position that returns at
\* one of its tokens has the counter at 0; one that ends at EOF leaves
\* counter and recorded position as they were.
C26_SyncGuard ==
    SyncReturned =>
        /\ tok(p) # "EOF" => p.syncPos = p.pos
        /\ SyncNoProgress /\ op.syncCnt < 10 =>
              /\ p.at = op.at
              /\ p.syncCnt = op.syncCnt + 1
              /\ p.syncPos = op.syncPos
        /\ SyncNoProgress /\ op.syncCnt = 10 =>
              /\ p.at > op.at
              /\ p.pos > op.pos \/ tok(p) = "EOF"
        /\ op.pos > op.syncPos /\ tok(p) # "EOF" => p.syncCnt = 0
        /\ p.at > op.at /\ tok(p) # "EOF" => p.syncCnt = 0
        /\ tok(p) = "EOF" =>
              p.syncCnt = op.syncCnt /\ p.syncPos = op.syncPos

\* After 10 calls without progress at a var, a call of syncDecl consumed
\* it and returned at the next var with the counter at 0.
C26_Witness ==
    /\ SyncReturned
    /\ op.anchors = DeclAnchors
    /\ SyncNoProgress
    /\ op.syncCnt = 10
    /\ p.at > op.at
    /\ tok(p) = "VAR"
    /\ p.syncCnt = 0

\* C27: the counter is in 0..10 and the recorded position is at most the
\* current one in every state, the recorded position never decreases, and
\* every call of syncStmt and syncDecl returns.
C27_SyncTerminates ==
    /\ [](op.name = "sync" =>
             /\ p.syncCnt \in 0..10
             /\ p.syncPos <= p.pos)
    /\ [][p'.syncPos >= p.syncPos /\ p'.pos >= p.pos]_vars
    /\ (op.name = "sync" /\ op.pc = "sync") ~> (op.name = "sync" /\ op.pc = "parser")

\* A call of syncStmt that started at a token that is none of its own,
\* with the counter at 10, ran over two tokens to EOF and returned.
C27_Witness ==
    /\ SyncReturned
    /\ op.anchors = StmtAnchors
    /\ op.syncCnt = 10
    /\ SyncTok0 = "IDENT"
    /\ p.at >= op.at + 2
    /\ tok(p) = "EOF"
    /\ p.syncCnt = 10

----------------------------------------------------------------------------
(* SpecNest: parseFile on functions whose bodies nest blocks and literals *)

\* The small statements: a / return / break / break L
NestSmall ==
    {<<Id("a")>>, <<T("RETURN")>>, <<T("BREAK")>>, <<T("BREAK"), Id("L")>>}

\* The statements that hold a block, s the small statement inside: a
\* literal after do with a short and with an indented body, a short
\* block, a block after do, a switch with one clause
NestBlocks(s) ==
    {<<Id("T")>> \o Sig \o <<T("DO")>> \o Sig \o <<T("COLON")>> \o s \o <<NL>>,
     <<Id("T")>> \o Sig \o <<T("DO")>> \o Sig \o <<NL, T("INDENT")>> \o s
        \o <<T("DEDENT")>>,
     <<T("COLON")>> \o s \o <<NL>>,
     <<T("DO"), NL, T("INDENT")>> \o s \o <<T("DEDENT")>>,
     <<T("SWITCH"), NL, T("INDENT"), T("CASE"), Id("a"), T("COLON")>> \o s
        \o <<NL, T("DEDENT")>>}

\* The last statement of an indented body
NestLast ==
    NestSmall \cup UNION {NestBlocks(s) : s \in NestSmall}

\* The bodies of a function: short with a small statement or a literal,
\* indented with one statement or with a small statement and another
NestBodies ==
    {<<T("COLON")>> \o s \o <<NL>> : s \in NestSmall}
    \cup {<<T("COLON"), Id("T")>> \o Sig \o <<T("DO")>> \o Sig \o <<T("COLON")>>
             \o s \o <<NL>> : s \in NestSmall}
    \cup {<<NL, T("INDENT")>> \o l \o <<T("DEDENT")>> : l \in NestLast}
    \cup {<<NL, T("INDENT")>> \o s \o <<NL>> \o l \o <<T("DEDENT")>> :
             s \in NestSmall, l \in NestLast}

\* The files: package a, func a() with a body and, after it or not,
\* func b(): return
NestFiles ==
    {<<T("PACKAGE"), Id("a"), NL, T("FUNC"), Id("a")>> \o Sig \o b \o rest :
        b \in NestBodies,
        rest \in {<<>>, <<T("FUNC"), Id("b")>> \o Sig \o <<T("COLON"), T("RETURN"), NL>>}}

\* After parser.init: the first token is current.
NestInit ==
    /\ AllIdle
    /\ \E src \in NestFiles :
          p = [P0 EXCEPT !.toks = WithOffsets(src),
                         !.lines = <<1>> \o LineStarts(src, 1)]
    /\ op = NoOp

SpecNest == NestInit /\ [][ParseNext]_vars

\* C28: between the declarations of a file the top scope is the package
\* scope and no label scope is open, and at the end of parseFile, the
\* package scope closed, topScope and labelScope are nil and no target is
\* left: the assertions do not fire.
C28_ScopesBalanced ==
    /\ op.name \in {"package", "parseDecl"} /\ p.abort = "none" /\ ~p.done =>
          /\ p.topScope = p.pkgScope
          /\ p.labelScope = 0
          /\ p.targetStack = <<>>
    /\ op.name = "parseFile" =>
          /\ p.abort = "none"
          /\ p.done
          /\ p.topScope = 0
          /\ p.labelScope = 0
          /\ p.targetStack = <<>>

\* parseFile returned on a file of two functions, the first with an
\* indented body that holds a literal with a body of its own and break L:
\* five scopes and a label scope were opened.
C28_Witness ==
    /\ op.name = "parseFile"
    /\ p.done
    /\ Len(p.decls) = 2
    /\ Len(p.scopes) >= 6
    /\ \E i \in 1..Len(p.toks) : p.toks[i].tok = "DO"
    /\ \E i \in 1..Len(p.idents) : p.idents[i].Name = "L"

\* C29: when a break, continue or goto with a label is parsed, a label
\* scope is open, whatever the form of the body: the index of the top of
\* the stack of targets is never out of range.
C29_LabelScopeOpen ==
    ~(p.abort = "panic" /\ p.thrown = Msg("index out of range", "", NoPos))

\* The same, of the files whose function has an indented body
C29_IndentedBodies ==
    p.toks # <<>> /\ Len(p.toks) >= 8 /\ p.toks[8] = NL =>
        ~(p.abort = "panic" /\ p.thrown = Msg("index out of range", "", NoPos))

----------------------------------------------------------------------------
(* SpecClassify: the lead and line comments next() leaves behind          *)

MaxClassToks == 4   \* tokens of a source whose comments are classified

ClassifyInit ==
    /\ AllIdle
    /\ \E n \in 1..MaxClassToks : \E shapes \in [1..n -> TokShapes] :
          p = [P0 EXCEPT
                 !.toks = <<[tok |-> "ILLEGAL", lit |-> "", line |-> NoPos]>>
                          \o Layout(shapes, 1, 1).toks,
                 !.lines = <<1>> \o Layout(shapes, 1, 1).lines]
    /\ op = NoOp
    /\ hist = <<>>

\* A call of next(); op keeps what the parser held when the call began:
\* its position (prev), its lead and line comments and the number of groups
\* of its comments list.
ClassifyNext ==
    /\ tok(p) # "EOF"
    /\ p' = next(p)
    /\ op' = [name |-> "next", prev |-> p.pos, lead |-> p.leadComment,
              line |-> p.lineComment, groups |-> Len(p.comments)]
    /\ UNCHANGED <<hist, OtherVars>>

SpecClassify == ClassifyInit /\ [][ClassifyNext]_vars

\* The groups the last call of next() has consumed, in order
NewGroups == SubSeq(p.comments, op.groups + 1, Len(p.comments))

\* The lines on which a group starts and on which its last comment stands
GroupStartLine(g) == Line(p, g[1].Slash)
GroupEndLine(g) == Line(p, g[Len(g)].Slash)

\* The line of the non-comment token next() has stopped at
FollowingLine == Line(p, p.pos)

C30_ResetWitness ==
    /\ op.name = "next"
    /\ op.line # <<>>
    /\ NewGroups = <<>>
    /\ p.lineComment = <<>>

====
